---- MODULE Spec2Model ----
(***************************************************************************)
(* Model of the clinical scoring engine of resicentral                     *)
(* (backend/app/clinical_modules/calculators.py) and of its algorithm      *)
(* graph (backend/app/models.py, crud.py, main.py).                        *)
(*                                                                         *)
(* Specifications.  CalcSpec: the calculators on arguments of the          *)
(* announced types.  UntypedSpec: the calculators on arguments of any      *)
(* type.  NodeSpec, EdgeSpec: the graph handlers, one request at a time,   *)
(* over the nodes, resp. the edges, that models.py lets be stored.         *)
(* SeedSpec: seed_sample_algorithms step by step, with readers between     *)
(* its commits.  CounterSpec: requests in sessions of their own, each a    *)
(* SELECT and a commit.  SeedersSpec: several calls of the seeder at once. *)
(*                                                                         *)
(* Every calculator is a pure function of its arguments.  A call is one    *)
(* action: it draws the arguments, runs the function as the code runs it   *)
(* (validation first, then the score, then the bucketing) and leaves the   *)
(* outcome in `result`.  NextCall forgets the finished call.               *)
(*                                                                         *)
(* Numbers.  Parameters the code types as int are integers.  Parameters    *)
(* the code types as float (urea, temperature, mean_arterial_pressure) and *)
(* the float score of calculate_wells_pe are fixed-point, in tenths:       *)
(* 29.9 is 299, 19 is 190.  T(n) is the source's integer literal n in      *)
(* tenths.  All weights of calculate_wells_pe are multiples of 0.5, which  *)
(* binary floating point adds exactly.  Strings are the source's, with the *)
(* accents dropped.                                                        *)
(***************************************************************************)
EXTENDS Integers, Sequences, FiniteSets, TLC

VARIABLES
    pc, fn, args, result,             \* the call in progress and its outcome
    algorithms, nodes, edges, users,  \* the tables of the database
    seq,                              \* the last id each table's sequence gave
    seeder,                           \* the run of seed_sample_algorithms
    sessions                          \* requests running in their own sessions

callVars == <<pc, fn, args, result>>

storeVars == <<algorithms, nodes, edges, users, seq>>

vars == <<pc, fn, args, result, algorithms, nodes, edges, users, seq, seeder, sessions>>

(* How far around each threshold of the code the arguments are drawn. *)
Margin == 1

T(n) == n * 10

(* The values on both sides of the step of a comparison with t:  *)
(* Below(t) straddles `>= t` and `< t`, Above(t) straddles `<= t` *)
(* and `> t`.                                                      *)
Below(t) == (t - Margin)..(t + Margin - 1)

Above(t) == (t - Margin + 1)..(t + Margin)

(* Both ends of a validated range, and the first value beyond each. *)
Edges(lo, hi) == {lo - 1, lo, hi, hi + 1}

(* ------------------------------------------------------------------ *)
(* RiskLevel, CalculatorResult                                         *)
(* ------------------------------------------------------------------ *)

LOW == "Bajo"
MODERATE == "Moderado"
HIGH == "Alto"
SEVERE == "Severo"

RiskLevel == {LOW, MODERATE, HIGH, SEVERE}

(* A call that returned: the four fields of CalculatorResult. *)
CalculatorResult(score, risk_level, interpretation, recommendations) ==
    [raised |-> "", score |-> score, risk_level |-> risk_level,
     interpretation |-> interpretation, recommendations |-> recommendations]

(* A call that raised: the exception's class and message, and no result. *)
Raise(type, msg) ==
    [raised |-> type, message |-> msg]

(* Mutation of ValidateNumericRange: the bounds themselves are refused. *)
ValidateNumericRange_Exclusive(value, unit, min_val, max_val, name) ==
    IF value <= min_val * unit \/ value >= max_val * unit
    THEN name \o " debe estar entre " \o ToString(min_val) \o " y " \o ToString(max_val)
    ELSE ""

(* _validate_numeric_range: the message of the ValueError it raises, or ""  *)
(* when it returns.  unit is 1 for an int parameter and 10 for a float one. *)
ValidateNumericRange(value, unit, min_val, max_val, name) ==
    IF value < min_val * unit \/ value > max_val * unit
    THEN name \o " debe estar entre " \o ToString(min_val) \o " y " \o ToString(max_val)
    ELSE ""

(* The first validation of a sequence that raises, or "". *)
RECURSIVE FirstRaised(_)
FirstRaised(checks) ==
    IF checks = <<>> THEN ""
    ELSE IF Head(checks) # "" THEN Head(checks)
    ELSE FirstRaised(Tail(checks))

(* ------------------------------------------------------------------ *)
(* calculate_curb65                                                    *)
(* ------------------------------------------------------------------ *)

(* Mutation of Curb65Score: a respiratory rate of exactly 30 does not count. *)
Curb65Score_StrictRate(confusion, urea, respiratory_rate, blood_pressure_systolic, blood_pressure_diastolic, age) ==
      (IF confusion THEN 1 ELSE 0)
    + (IF urea > T(19) THEN 1 ELSE 0)
    + (IF respiratory_rate > 30 THEN 1 ELSE 0)
    + (IF blood_pressure_systolic < 90 \/ blood_pressure_diastolic <= 60 THEN 1 ELSE 0)
    + (IF age >= 65 THEN 1 ELSE 0)

Curb65Score(confusion, urea, respiratory_rate, blood_pressure_systolic, blood_pressure_diastolic, age) ==
      (IF confusion THEN 1 ELSE 0)
    + (IF urea > T(19) THEN 1 ELSE 0)
    + (IF respiratory_rate >= 30 THEN 1 ELSE 0)
    + (IF blood_pressure_systolic < 90 \/ blood_pressure_diastolic <= 60 THEN 1 ELSE 0)
    + (IF age >= 65 THEN 1 ELSE 0)

(* Mutation of Curb65Interpret: the branch of score 3 is missing, so 3 falls *)
(* through to the last one.                                                 *)
Curb65Interpret_NoHigh(score) ==
    IF score = 0 THEN
        CalculatorResult(score, LOW, "Riesgo bajo de mortalidad (0.7%)",
            "Manejo ambulatorio. Considerar tratamiento oral.")
    ELSE IF score = 1 THEN
        CalculatorResult(score, LOW, "Riesgo bajo de mortalidad (2.1%)",
            "Manejo ambulatorio. Considerar tratamiento oral.")
    ELSE IF score = 2 THEN
        CalculatorResult(score, MODERATE, "Riesgo moderado de mortalidad (9.2%)",
            "Considerar hospitalizacion. Tratamiento antibiotico endovenoso.")
    ELSE
        CalculatorResult(score, SEVERE, "Riesgo muy alto de mortalidad (40%)",
            "Hospitalizacion urgente. Considerar manejo en UCI.")

Curb65Interpret(score) ==
    IF score = 0 THEN
        CalculatorResult(score, LOW, "Riesgo bajo de mortalidad (0.7%)",
            "Manejo ambulatorio. Considerar tratamiento oral.")
    ELSE IF score = 1 THEN
        CalculatorResult(score, LOW, "Riesgo bajo de mortalidad (2.1%)",
            "Manejo ambulatorio. Considerar tratamiento oral.")
    ELSE IF score = 2 THEN
        CalculatorResult(score, MODERATE, "Riesgo moderado de mortalidad (9.2%)",
            "Considerar hospitalizacion. Tratamiento antibiotico endovenoso.")
    ELSE IF score = 3 THEN
        CalculatorResult(score, HIGH, "Riesgo alto de mortalidad (14.5%)",
            "Hospitalizacion recomendada. Considerar UCI si hay deterioro.")
    ELSE
        CalculatorResult(score, SEVERE, "Riesgo muy alto de mortalidad (40%)",
            "Hospitalizacion urgente. Considerar manejo en UCI.")

Curb65Validate(urea, respiratory_rate, blood_pressure_systolic, blood_pressure_diastolic, age) ==
    FirstRaised(<<
        ValidateNumericRange(urea, 10, 0, 500, "Urea"),
        ValidateNumericRange(respiratory_rate, 1, 0, 100, "Frecuencia respiratoria"),
        ValidateNumericRange(blood_pressure_systolic, 1, 40, 300, "Presion arterial sistolica"),
        ValidateNumericRange(blood_pressure_diastolic, 1, 20, 200, "Presion arterial diastolica"),
        ValidateNumericRange(age, 1, 0, 150, "Edad") >>)

calculate_curb65(confusion, urea, respiratory_rate, blood_pressure_systolic, blood_pressure_diastolic, age) ==
    LET err == Curb65Validate(urea, respiratory_rate, blood_pressure_systolic,
                              blood_pressure_diastolic, age)
    IN  IF err # "" THEN Raise("ValueError", err)
        ELSE Curb65Interpret(Curb65Score(confusion, urea, respiratory_rate,
                 blood_pressure_systolic, blood_pressure_diastolic, age))

(* The arguments a call of calculate_curb65 is tried with. *)
Curb65Urea == Edges(T(0), T(500)) \cup Above(T(19))
Curb65RespiratoryRate == Edges(0, 100) \cup Below(30)
Curb65Systolic == Edges(40, 300) \cup Below(90)
Curb65Diastolic == Edges(20, 200) \cup Above(60)
Curb65Age == Edges(0, 150) \cup Below(65)

CallCurb65 ==
    /\ pc = "idle"
    /\ UNCHANGED <<storeVars, seeder, sessions>>
    /\ \E confusion \in BOOLEAN, urea \in Curb65Urea,
          respiratory_rate \in Curb65RespiratoryRate,
          blood_pressure_systolic \in Curb65Systolic,
          blood_pressure_diastolic \in Curb65Diastolic, age \in Curb65Age :
          /\ fn' = "calculate_curb65"
          /\ args' = [confusion |-> confusion, urea |-> urea,
                      respiratory_rate |-> respiratory_rate,
                      blood_pressure_systolic |-> blood_pressure_systolic,
                      blood_pressure_diastolic |-> blood_pressure_diastolic,
                      age |-> age]
          /\ result' = calculate_curb65(confusion, urea, respiratory_rate,
                           blood_pressure_systolic, blood_pressure_diastolic, age)
          /\ pc' = "done"

(* ------------------------------------------------------------------ *)
(* calculate_wells_pe                                                  *)
(* ------------------------------------------------------------------ *)

(* str() of a float with one decimal digit, given in tenths: 45 is "4.5". *)
FloatStr(tenths) == ToString(tenths \div 10) \o "." \o ToString(tenths % 10)

(* The score, in tenths: 3.0 is 30, 1.5 is 15. *)
WellsPeScore(clinical_signs_dvt, pe_likely, heart_rate_over_100, immobilization_surgery, previous_pe_dvt, hemoptysis, malignancy) ==
      (IF clinical_signs_dvt THEN 30 ELSE 0)
    + (IF pe_likely THEN 30 ELSE 0)
    + (IF heart_rate_over_100 THEN 15 ELSE 0)
    + (IF immobilization_surgery THEN 15 ELSE 0)
    + (IF previous_pe_dvt THEN 15 ELSE 0)
    + (IF hemoptysis THEN 10 ELSE 0)
    + (IF malignancy THEN 10 ELSE 0)

(* Mutation of WellsPeInterpret: a score of exactly 6.0 is High. *)
WellsPeInterpret_StrictSix(score) ==
    IF score <= 40 THEN
        CalculatorResult(score, LOW,
            "Probabilidad baja de EP (" \o FloatStr(score) \o " puntos). Probabilidad < 12%",
            "Considerar dimero D. Si negativo, EP poco probable.")
    ELSE IF score < 60 THEN
        CalculatorResult(score, MODERATE,
            "Probabilidad moderada de EP (" \o FloatStr(score) \o " puntos). Probabilidad 12-37%",
            "Realizar estudios de imagen (AngioTC o gammagrafia).")
    ELSE
        CalculatorResult(score, HIGH,
            "Probabilidad alta de EP (" \o FloatStr(score) \o " puntos). Probabilidad > 37%",
            "AngioTC urgente. Considerar anticoagulacion empirica si hay retraso.")

WellsPeInterpret(score) ==
    IF score <= 40 THEN
        CalculatorResult(score, LOW,
            "Probabilidad baja de EP (" \o FloatStr(score) \o " puntos). Probabilidad < 12%",
            "Considerar dimero D. Si negativo, EP poco probable.")
    ELSE IF score <= 60 THEN
        CalculatorResult(score, MODERATE,
            "Probabilidad moderada de EP (" \o FloatStr(score) \o " puntos). Probabilidad 12-37%",
            "Realizar estudios de imagen (AngioTC o gammagrafia).")
    ELSE
        CalculatorResult(score, HIGH,
            "Probabilidad alta de EP (" \o FloatStr(score) \o " puntos). Probabilidad > 37%",
            "AngioTC urgente. Considerar anticoagulacion empirica si hay retraso.")

calculate_wells_pe(clinical_signs_dvt, pe_likely, heart_rate_over_100, immobilization_surgery, previous_pe_dvt, hemoptysis, malignancy) ==
    WellsPeInterpret(WellsPeScore(clinical_signs_dvt, pe_likely, heart_rate_over_100,
        immobilization_surgery, previous_pe_dvt, hemoptysis, malignancy))

CallWellsPe ==
    /\ pc = "idle"
    /\ UNCHANGED <<storeVars, seeder, sessions>>
    /\ \E clinical_signs_dvt \in BOOLEAN, pe_likely \in BOOLEAN,
          heart_rate_over_100 \in BOOLEAN, immobilization_surgery \in BOOLEAN,
          previous_pe_dvt \in BOOLEAN, hemoptysis \in BOOLEAN, malignancy \in BOOLEAN :
          /\ fn' = "calculate_wells_pe"
          /\ args' = [clinical_signs_dvt |-> clinical_signs_dvt, pe_likely |-> pe_likely,
                      heart_rate_over_100 |-> heart_rate_over_100,
                      immobilization_surgery |-> immobilization_surgery,
                      previous_pe_dvt |-> previous_pe_dvt, hemoptysis |-> hemoptysis,
                      malignancy |-> malignancy]
          /\ result' = calculate_wells_pe(clinical_signs_dvt, pe_likely,
                           heart_rate_over_100, immobilization_surgery,
                           previous_pe_dvt, hemoptysis, malignancy)
          /\ pc' = "done"

(* ------------------------------------------------------------------ *)
(* calculate_glasgow_coma_scale                                        *)
(* ------------------------------------------------------------------ *)

(* Mutation of GlasgowValidate: motor_response has no upper end. *)
GlasgowValidate_MotorUnbounded(eye_opening, verbal_response, motor_response) ==
    IF ~(1 <= eye_opening /\ eye_opening <= 4)
    THEN "Apertura ocular debe estar entre 1-4"
    ELSE IF ~(1 <= verbal_response /\ verbal_response <= 5)
    THEN "Respuesta verbal debe estar entre 1-5"
    ELSE IF ~(1 <= motor_response)
    THEN "Respuesta motora debe estar entre 1-6"
    ELSE ""

GlasgowValidate(eye_opening, verbal_response, motor_response) ==
    IF ~(1 <= eye_opening /\ eye_opening <= 4)
    THEN "Apertura ocular debe estar entre 1-4"
    ELSE IF ~(1 <= verbal_response /\ verbal_response <= 5)
    THEN "Respuesta verbal debe estar entre 1-5"
    ELSE IF ~(1 <= motor_response /\ motor_response <= 6)
    THEN "Respuesta motora debe estar entre 1-6"
    ELSE ""

(* Mutation of GlasgowInterpret: a score of exactly 13 is Moderate. *)
GlasgowInterpret_Strict13(score) ==
    IF score > 13 THEN
        CalculatorResult(score, LOW,
            "Lesion cerebral leve (GCS " \o ToString(score) \o ")",
            "Observacion. Monitoreo neurologico rutinario.")
    ELSE IF score >= 9 THEN
        CalculatorResult(score, MODERATE,
            "Lesion cerebral moderada (GCS " \o ToString(score) \o ")",
            "Hospitalizacion. Monitoreo neurologico frecuente. Considerar TC.")
    ELSE
        CalculatorResult(score, SEVERE,
            "Lesion cerebral severa (GCS " \o ToString(score) \o ")",
            "UCI. Manejo de via aerea. TC urgente. Monitoreo PIC.")

GlasgowInterpret(score) ==
    IF score >= 13 THEN
        CalculatorResult(score, LOW,
            "Lesion cerebral leve (GCS " \o ToString(score) \o ")",
            "Observacion. Monitoreo neurologico rutinario.")
    ELSE IF score >= 9 THEN
        CalculatorResult(score, MODERATE,
            "Lesion cerebral moderada (GCS " \o ToString(score) \o ")",
            "Hospitalizacion. Monitoreo neurologico frecuente. Considerar TC.")
    ELSE
        CalculatorResult(score, SEVERE,
            "Lesion cerebral severa (GCS " \o ToString(score) \o ")",
            "UCI. Manejo de via aerea. TC urgente. Monitoreo PIC.")

calculate_glasgow_coma_scale(eye_opening, verbal_response, motor_response) ==
    LET err == GlasgowValidate(eye_opening, verbal_response, motor_response)
    IN  IF err # "" THEN Raise("ValueError", err)
        ELSE GlasgowInterpret(eye_opening + verbal_response + motor_response)

(* Every value of each component's scale, and Margin values beyond each end. *)
GlasgowEye == (1 - Margin)..(4 + Margin)
GlasgowVerbal == (1 - Margin)..(5 + Margin)
GlasgowMotor == (1 - Margin)..(6 + Margin)

CallGlasgow ==
    /\ pc = "idle"
    /\ UNCHANGED <<storeVars, seeder, sessions>>
    /\ \E eye_opening \in GlasgowEye, verbal_response \in GlasgowVerbal,
          motor_response \in GlasgowMotor :
          /\ fn' = "calculate_glasgow_coma_scale"
          /\ args' = [eye_opening |-> eye_opening, verbal_response |-> verbal_response,
                      motor_response |-> motor_response]
          /\ result' = calculate_glasgow_coma_scale(eye_opening, verbal_response,
                           motor_response)
          /\ pc' = "done"

(* ------------------------------------------------------------------ *)
(* calculate_chads2_vasc                                               *)
(* ------------------------------------------------------------------ *)

(* format(x, ".1f") of x >= 0 given in hundredths: the nearest tenth, a tie *)
(* going to the even one, then its digits.                                  *)
RoundF1(hundredths) ==
    LET q == hundredths \div 10
        r == hundredths % 10
    IN  IF r > 5 \/ (r = 5 /\ q % 2 = 1) THEN q + 1 ELSE q

FormatF1(hundredths) == FloatStr(RoundF1(hundredths))

(* Mutation of Chads2VascAnnualRisk: the step is counted from score 2. *)
Chads2VascAnnualRisk_FromTwo(score) == 320 + (score - 2) * 80

(* 3.2 + (score-3)*0.8, in hundredths. *)
Chads2VascAnnualRisk(score) == 320 + (score - 3) * 80

(* Mutation of Chads2VascAgePoints: the ages 65 and 75 themselves fall in *)
(* the bracket below.                                                     *)
Chads2VascAgePoints_Strict(age) ==
    IF age > 75 THEN 2
    ELSE IF age > 65 THEN 1
    ELSE 0

Chads2VascAgePoints(age) ==
    IF age >= 75 THEN 2
    ELSE IF age >= 65 THEN 1
    ELSE 0

Chads2VascScore(congestive_heart_failure, hypertension, age, diabetes, stroke_tia_history, vascular_disease, sex_female) ==
      (IF congestive_heart_failure THEN 1 ELSE 0)
    + (IF hypertension THEN 1 ELSE 0)
    + Chads2VascAgePoints(age)
    + (IF diabetes THEN 1 ELSE 0)
    + (IF stroke_tia_history THEN 2 ELSE 0)
    + (IF vascular_disease THEN 1 ELSE 0)
    + (IF sex_female THEN 1 ELSE 0)

Chads2VascInterpret(score) ==
    IF score = 0 THEN
        CalculatorResult(score, LOW,
            "Riesgo muy bajo de stroke (CHA2DS2-VASc " \o ToString(score)
                \o "). Riesgo anual: 0%",
            "No anticoagulacion. Considerar aspirina.")
    ELSE IF score = 1 THEN
        CalculatorResult(score, LOW,
            "Riesgo bajo de stroke (CHA2DS2-VASc " \o ToString(score)
                \o "). Riesgo anual: 1.3%",
            "Considerar anticoagulacion oral o aspirina.")
    ELSE IF score = 2 THEN
        CalculatorResult(score, MODERATE,
            "Riesgo moderado de stroke (CHA2DS2-VASc " \o ToString(score)
                \o "). Riesgo anual: 2.2%",
            "Anticoagulacion oral recomendada.")
    ELSE
        CalculatorResult(score, HIGH,
            "Riesgo alto de stroke (CHA2DS2-VASc " \o ToString(score)
                \o "). Riesgo anual: " \o FormatF1(Chads2VascAnnualRisk(score)) \o "%",
            "Anticoagulacion oral fuertemente recomendada.")

calculate_chads2_vasc(congestive_heart_failure, hypertension, age, diabetes, stroke_tia_history, vascular_disease, sex_female) ==
    LET err == ValidateNumericRange(age, 1, 0, 150, "Edad")
    IN  IF err # "" THEN Raise("ValueError", err)
        ELSE Chads2VascInterpret(Chads2VascScore(congestive_heart_failure,
                 hypertension, age, diabetes, stroke_tia_history,
                 vascular_disease, sex_female))

(* The ages of the age-scoring tests, the steps and the ends of the range. *)
Chads2VascAge == Edges(0, 150) \cup Below(65) \cup Below(75) \cup {45, 80}

CallChads2Vasc ==
    /\ pc = "idle"
    /\ UNCHANGED <<storeVars, seeder, sessions>>
    /\ \E congestive_heart_failure \in BOOLEAN, hypertension \in BOOLEAN,
          age \in Chads2VascAge, diabetes \in BOOLEAN, stroke_tia_history \in BOOLEAN,
          vascular_disease \in BOOLEAN, sex_female \in BOOLEAN :
          /\ fn' = "calculate_chads2_vasc"
          /\ args' = [congestive_heart_failure |-> congestive_heart_failure,
                      hypertension |-> hypertension, age |-> age, diabetes |-> diabetes,
                      stroke_tia_history |-> stroke_tia_history,
                      vascular_disease |-> vascular_disease, sex_female |-> sex_female]
          /\ result' = calculate_chads2_vasc(congestive_heart_failure, hypertension,
                           age, diabetes, stroke_tia_history, vascular_disease,
                           sex_female)
          /\ pc' = "done"

(* ------------------------------------------------------------------ *)
(* calculate_apache_ii                                                 *)
(* ------------------------------------------------------------------ *)

(* Mutation of ApacheTemperaturePoints: the second and third tests are *)
(* swapped, so 39 degrees and more match the 1-point test first.       *)
ApacheTemperaturePoints_Swapped(temperature) ==
    IF temperature >= T(41) \/ temperature <= 299 THEN 4
    ELSE IF temperature >= 385 \/ temperature <= 339 THEN 1
    ELSE IF temperature >= T(39) \/ temperature <= 319 THEN 3
    ELSE 0

(* temperature in tenths of a degree *)
ApacheTemperaturePoints(temperature) ==
    IF temperature >= T(41) \/ temperature <= 299 THEN 4
    ELSE IF temperature >= T(39) \/ temperature <= 319 THEN 3
    ELSE IF temperature >= 385 \/ temperature <= 339 THEN 1
    ELSE 0

(* Mutation of ApacheMapPoints: the third test gives 1 point, as the third *)
(* test of the temperature and of the heart rate do.                      *)
ApacheMapPoints_OneAtThird(mean_arterial_pressure) ==
    IF mean_arterial_pressure >= T(160) \/ mean_arterial_pressure <= T(49) THEN 4
    ELSE IF mean_arterial_pressure >= T(130) \/ mean_arterial_pressure <= T(69) THEN 2
    ELSE IF mean_arterial_pressure <= T(109) THEN 1
    ELSE 0

(* mean_arterial_pressure in tenths *)
ApacheMapPoints(mean_arterial_pressure) ==
    IF mean_arterial_pressure >= T(160) \/ mean_arterial_pressure <= T(49) THEN 4
    ELSE IF mean_arterial_pressure >= T(130) \/ mean_arterial_pressure <= T(69) THEN 2
    ELSE IF mean_arterial_pressure <= T(109) THEN 2
    ELSE 0

ApacheHeartRatePoints(heart_rate) ==
    IF heart_rate >= 180 \/ heart_rate <= 39 THEN 4
    ELSE IF heart_rate >= 140 \/ heart_rate <= 54 THEN 2
    ELSE IF heart_rate >= 110 \/ heart_rate <= 69 THEN 1
    ELSE 0

(* Mutation of ApacheAgePoints: the bracket 65..74 gives 4 points. *)
ApacheAgePoints_FourAt65(age) ==
    IF age >= 75 THEN 6
    ELSE IF age >= 65 THEN 4
    ELSE IF age >= 55 THEN 3
    ELSE IF age >= 45 THEN 2
    ELSE 0

ApacheAgePoints(age) ==
    IF age >= 75 THEN 6
    ELSE IF age >= 65 THEN 5
    ELSE IF age >= 55 THEN 3
    ELSE IF age >= 45 THEN 2
    ELSE 0

ApacheScore(temperature, mean_arterial_pressure, heart_rate, glasgow_coma_scale, age, chronic_health) ==
      ApacheTemperaturePoints(temperature)
    + ApacheMapPoints(mean_arterial_pressure)
    + ApacheHeartRatePoints(heart_rate)
    + (15 - glasgow_coma_scale)
    + ApacheAgePoints(age)
    + (IF chronic_health THEN 5 ELSE 0)

ApacheInterpret(score) ==
    IF score <= 4 THEN
        CalculatorResult(score, LOW,
            "Riesgo bajo de mortalidad (APACHE II " \o ToString(score)
                \o "). Mortalidad estimada: <4%",
            "Paciente estable. Monitoreo rutinario.")
    ELSE IF score <= 14 THEN
        CalculatorResult(score, MODERATE,
            "Riesgo moderado de mortalidad (APACHE II " \o ToString(score)
                \o "). Mortalidad estimada: 8-15%",
            "Monitoreo cercano. Considerar cuidados intermedios.")
    ELSE IF score <= 24 THEN
        CalculatorResult(score, HIGH,
            "Riesgo alto de mortalidad (APACHE II " \o ToString(score)
                \o "). Mortalidad estimada: 15-25%",
            "UCI recomendada. Soporte intensivo.")
    ELSE
        CalculatorResult(score, SEVERE,
            "Riesgo muy alto de mortalidad (APACHE II " \o ToString(score)
                \o "). Mortalidad estimada: >40%",
            "UCI. Soporte vital maximo. Considerar pronostico.")

(* The function never reads respiratory_rate, oxygenation, arterial_ph,    *)
(* sodium, potassium, creatinine, hematocrit and white_blood_cells, and it *)
(* validates nothing: they are left out of the arguments drawn.            *)
calculate_apache_ii(temperature, mean_arterial_pressure, heart_rate, glasgow_coma_scale, age, chronic_health) ==
    ApacheInterpret(ApacheScore(temperature, mean_arterial_pressure, heart_rate,
        glasgow_coma_scale, age, chronic_health))

ApacheTemperature ==
    Below(T(41)) \cup Above(299) \cup Below(T(39)) \cup Above(319)
        \cup Below(385) \cup Above(339)
ApacheMap ==
    Below(T(160)) \cup Above(T(49)) \cup Below(T(130)) \cup Above(T(69))
        \cup Above(T(109))
ApacheHeartRate ==
    Below(180) \cup Above(39) \cup Below(140) \cup Above(54) \cup Below(110)
        \cup Above(69)
ApacheGlasgow == Edges(3, 15)
ApacheAge == Below(45) \cup Below(55) \cup Below(65) \cup Below(75)

CallApacheII ==
    /\ pc = "idle"
    /\ UNCHANGED <<storeVars, seeder, sessions>>
    /\ \E temperature \in ApacheTemperature, mean_arterial_pressure \in ApacheMap,
          heart_rate \in ApacheHeartRate, glasgow_coma_scale \in ApacheGlasgow,
          age \in ApacheAge, chronic_health \in BOOLEAN :
          /\ fn' = "calculate_apache_ii"
          /\ args' = [temperature |-> temperature,
                      mean_arterial_pressure |-> mean_arterial_pressure,
                      heart_rate |-> heart_rate,
                      glasgow_coma_scale |-> glasgow_coma_scale,
                      age |-> age, chronic_health |-> chronic_health]
          /\ result' = calculate_apache_ii(temperature, mean_arterial_pressure,
                           heart_rate, glasgow_coma_scale, age, chronic_health)
          /\ pc' = "done"

(* ------------------------------------------------------------------ *)
(* The engine                                                          *)
(* ------------------------------------------------------------------ *)

NoCall == [none |-> TRUE]

(* A column that holds no value. *)
NULL == 0

(* A table without rows. *)
NoRows == [id \in {} |-> NULL]

(* The scoring engine has no database: calculators.py imports none. *)
NoDatabase ==
    /\ algorithms = NoRows /\ nodes = NoRows /\ edges = NoRows
    /\ users = {}
    /\ seq = [algorithms |-> 0, nodes |-> 0, edges |-> 0]
    /\ seeder = [pc |-> "off"]
    /\ sessions = NoRows

CalcInit ==
    /\ pc = "idle"
    /\ fn = ""
    /\ args = NoCall
    /\ result = NoCall
    /\ NoDatabase

(* The caller has its answer; nothing of the call is kept. *)
NextCall ==
    /\ pc = "done"
    /\ pc' = "idle"
    /\ fn' = ""
    /\ args' = NoCall
    /\ result' = NoCall
    /\ UNCHANGED <<storeVars, seeder, sessions>>

CalcNext ==
    \/ CallCurb65
    \/ CallWellsPe
    \/ CallGlasgow
    \/ CallChads2Vasc
    \/ CallApacheII
    \/ NextCall

CalcSpec == CalcInit /\ [][CalcNext]_vars

(* ------------------------------------------------------------------ *)
(* The calculators called with arguments of any type                   *)
(* ------------------------------------------------------------------ *)

(* The annotations of calculators.py (confusion: bool, urea: float) are not *)
(* enforced by Python and no function checks a type, so a caller can pass   *)
(* any object in any position.  A Python value is its type, its text and,   *)
(* for a number, its value in the unit of the parameter (0 otherwise).      *)
PyBool(b) == [type |-> "bool", repr |-> IF b THEN "True" ELSE "False", num |-> IF b THEN 1 ELSE 0]

PyNone == [type |-> "NoneType", repr |-> "None", num |-> 0]

PyStr(s) == [type |-> "str", repr |-> s, num |-> 0]

PyInt(n) == [type |-> "int", repr |-> ToString(n), num |-> n]

PyFloat(tenths) == [type |-> "float", repr |-> ToString(tenths), num |-> tenths]

IsNumber(v) == v.type \in {"int", "float"}

(* `if confusion:` takes the truth value of whatever object it is given: *)
(* None and the empty string are false, any other string is true.        *)
Truthy(v) ==
    CASE v.type = "NoneType" -> FALSE
      [] v.type = "bool" -> v.repr = "True"
      [] v.type = "str" -> v.repr # ""
      [] OTHER -> v.num # 0

(* An ordering comparison of a number with None or with a string raises. *)
PyCompareError(op, left, right) ==
    Raise("TypeError", "'" \o op \o "' not supported between instances of '"
                       \o left \o "' and '" \o right \o "'")

(* _validate_numeric_range on any object: `value < min_val` raises the *)
(* TypeError, and the range check follows for a number.                *)
NumericCheck(value, unit, min_val, max_val, name) ==
    [value |-> value,
     type_error |-> PyCompareError("<", value.type, "int"),
     value_error |-> ValidateNumericRange(value.num, unit, min_val, max_val, name)]

(* `1 <= eye_opening <= 4` on any object. *)
ChainedCheck(value, min_val, max_val, message) ==
    [value |-> value,
     type_error |-> PyCompareError("<=", "int", value.type),
     value_error |-> IF ~(min_val <= value.num /\ value.num <= max_val) THEN message ELSE ""]

(* The checks run in the order of the source; the first that raises ends *)
(* the call.  raised = "" when every check passes.                       *)
RECURSIVE FirstRaisedUntyped(_)
FirstRaisedUntyped(checks) ==
    IF checks = <<>> THEN Raise("", "")
    ELSE IF ~IsNumber(Head(checks).value) THEN Head(checks).type_error
    ELSE IF Head(checks).value_error # "" THEN Raise("ValueError", Head(checks).value_error)
    ELSE FirstRaisedUntyped(Tail(checks))

Curb65Untyped(confusion, urea, respiratory_rate, blood_pressure_systolic, blood_pressure_diastolic, age) ==
    LET e == FirstRaisedUntyped(<<
                 NumericCheck(urea, 10, 0, 500, "Urea"),
                 NumericCheck(respiratory_rate, 1, 0, 100, "Frecuencia respiratoria"),
                 NumericCheck(blood_pressure_systolic, 1, 40, 300, "Presion arterial sistolica"),
                 NumericCheck(blood_pressure_diastolic, 1, 20, 200, "Presion arterial diastolica"),
                 NumericCheck(age, 1, 0, 150, "Edad") >>)
    IN  IF e.raised # "" THEN e
        ELSE Curb65Interpret(Curb65Score(Truthy(confusion), urea.num,
                 respiratory_rate.num, blood_pressure_systolic.num,
                 blood_pressure_diastolic.num, age.num))

WellsPeUntyped(clinical_signs_dvt, pe_likely, heart_rate_over_100, immobilization_surgery, previous_pe_dvt, hemoptysis, malignancy) ==
    calculate_wells_pe(Truthy(clinical_signs_dvt), Truthy(pe_likely),
        Truthy(heart_rate_over_100), Truthy(immobilization_surgery),
        Truthy(previous_pe_dvt), Truthy(hemoptysis), Truthy(malignancy))

GlasgowUntyped(eye_opening, verbal_response, motor_response) ==
    LET e == FirstRaisedUntyped(<<
                 ChainedCheck(eye_opening, 1, 4, "Apertura ocular debe estar entre 1-4"),
                 ChainedCheck(verbal_response, 1, 5, "Respuesta verbal debe estar entre 1-5"),
                 ChainedCheck(motor_response, 1, 6, "Respuesta motora debe estar entre 1-6") >>)
    IN  IF e.raised # "" THEN e
        ELSE calculate_glasgow_coma_scale(eye_opening.num, verbal_response.num,
                                          motor_response.num)

Chads2VascUntyped(congestive_heart_failure, hypertension, age, diabetes, stroke_tia_history, vascular_disease, sex_female) ==
    LET e == FirstRaisedUntyped(<< NumericCheck(age, 1, 0, 150, "Edad") >>)
    IN  IF e.raised # "" THEN e
        ELSE calculate_chads2_vasc(Truthy(congestive_heart_failure),
                 Truthy(hypertension), age.num, Truthy(diabetes),
                 Truthy(stroke_tia_history), Truthy(vascular_disease),
                 Truthy(sex_female))

(* What a caller may put where a bool is announced, and where a number is. *)
PyFlags == {PyBool(TRUE), PyBool(FALSE), PyNone, PyStr("yes")}

PyFlagsOrEmpty == PyFlags \cup {PyStr("")}

PyNumbers(valid, beyond) == {valid, beyond, PyNone, PyStr("abc")}

(* The parameters each signature announces as bool, and as int or float. *)
BooleanParams(f) ==
    CASE f = "calculate_curb65" -> {"confusion"}
      [] f = "calculate_wells_pe" ->
            {"clinical_signs_dvt", "pe_likely", "heart_rate_over_100",
             "immobilization_surgery", "previous_pe_dvt", "hemoptysis", "malignancy"}
      [] f = "calculate_chads2_vasc" ->
            {"congestive_heart_failure", "hypertension", "diabetes",
             "stroke_tia_history", "vascular_disease", "sex_female"}
      [] OTHER -> {}

NumericParams(f) ==
    CASE f = "calculate_curb65" ->
            {"urea", "respiratory_rate", "blood_pressure_systolic",
             "blood_pressure_diastolic", "age"}
      [] f = "calculate_glasgow_coma_scale" ->
            {"eye_opening", "verbal_response", "motor_response"}
      [] f = "calculate_chads2_vasc" -> {"age"}
      [] OTHER -> {}

CallCurb65Untyped ==
    /\ pc = "idle"
    /\ UNCHANGED <<storeVars, seeder, sessions>>
    /\ \E confusion \in PyFlagsOrEmpty,
          urea \in PyNumbers(PyFloat(T(5)), PyFloat(T(600))),
          respiratory_rate \in {PyInt(20), PyNone},
          age \in PyNumbers(PyInt(50), PyInt(500)) :
          /\ fn' = "calculate_curb65"
          /\ args' = [confusion |-> confusion, urea |-> urea,
                      respiratory_rate |-> respiratory_rate,
                      blood_pressure_systolic |-> PyInt(120),
                      blood_pressure_diastolic |-> PyInt(80), age |-> age]
          /\ result' = Curb65Untyped(confusion, urea, respiratory_rate,
                                     PyInt(120), PyInt(80), age)
          /\ pc' = "done"

CallWellsPeUntyped ==
    /\ pc = "idle"
    /\ UNCHANGED <<storeVars, seeder, sessions>>
    /\ \E clinical_signs_dvt \in PyFlags, pe_likely \in PyFlags,
          heart_rate_over_100 \in PyFlags, immobilization_surgery \in PyFlags,
          previous_pe_dvt \in PyFlags, hemoptysis \in PyFlags, malignancy \in PyFlags :
          /\ fn' = "calculate_wells_pe"
          /\ args' = [clinical_signs_dvt |-> clinical_signs_dvt, pe_likely |-> pe_likely,
                      heart_rate_over_100 |-> heart_rate_over_100,
                      immobilization_surgery |-> immobilization_surgery,
                      previous_pe_dvt |-> previous_pe_dvt, hemoptysis |-> hemoptysis,
                      malignancy |-> malignancy]
          /\ result' = WellsPeUntyped(clinical_signs_dvt, pe_likely,
                           heart_rate_over_100, immobilization_surgery,
                           previous_pe_dvt, hemoptysis, malignancy)
          /\ pc' = "done"

CallGlasgowUntyped ==
    /\ pc = "idle"
    /\ UNCHANGED <<storeVars, seeder, sessions>>
    /\ \E eye_opening \in PyNumbers(PyInt(4), PyInt(5)),
          verbal_response \in PyNumbers(PyInt(5), PyInt(6)),
          motor_response \in PyNumbers(PyInt(6), PyInt(7)) :
          /\ fn' = "calculate_glasgow_coma_scale"
          /\ args' = [eye_opening |-> eye_opening, verbal_response |-> verbal_response,
                      motor_response |-> motor_response]
          /\ result' = GlasgowUntyped(eye_opening, verbal_response, motor_response)
          /\ pc' = "done"

CallChads2VascUntyped ==
    /\ pc = "idle"
    /\ UNCHANGED <<storeVars, seeder, sessions>>
    /\ \E congestive_heart_failure \in PyFlags, hypertension \in PyFlags,
          age \in PyNumbers(PyInt(70), PyInt(151)), diabetes \in PyFlags,
          stroke_tia_history \in {PyBool(FALSE), PyStr("yes")},
          vascular_disease \in {PyBool(FALSE), PyNone},
          sex_female \in {PyBool(TRUE), PyBool(FALSE)} :
          /\ fn' = "calculate_chads2_vasc"
          /\ args' = [congestive_heart_failure |-> congestive_heart_failure,
                      hypertension |-> hypertension, age |-> age, diabetes |-> diabetes,
                      stroke_tia_history |-> stroke_tia_history,
                      vascular_disease |-> vascular_disease, sex_female |-> sex_female]
          /\ result' = Chads2VascUntyped(congestive_heart_failure, hypertension, age,
                           diabetes, stroke_tia_history, vascular_disease, sex_female)
          /\ pc' = "done"

UntypedNext ==
    \/ CallCurb65Untyped
    \/ CallWellsPeUntyped
    \/ CallGlasgowUntyped
    \/ CallChads2VascUntyped
    \/ NextCall

UntypedSpec == CalcInit /\ [][UntypedNext]_vars

(* ================================================================== *)
(* The algorithm graph (models.py, crud.py, main.py)                   *)
(* ================================================================== *)

(* Tables are functions from the primary key to the row.  A row keeps the   *)
(* columns the graph operations read or write; titles, texts, uuids and     *)
(* timestamps are presentation and are left out.  Every request runs in a   *)
(* session of its own (database.py, get_db), so a handler that runs alone   *)
(* is one step from the state of the tables to the state after its commit.  *)
(* The only code of the repository that inserts algorithms, nodes or edges  *)
(* is seed_sample_algorithms; any other client of the database writes rows  *)
(* through the classes of models.py and is bound by their columns only.     *)

(* How many nodes and edges the tables hold, and how far a counter runs. *)
MaxNodes == 2

MaxEdges == 2

MaxCount == 2

AlgorithmRow(start_node_id, view_count, usage_count) == [start_node_id |-> start_node_id, view_count |-> view_count, usage_count |-> usage_count]

NodeRow(algorithm_id, node_type, order_index, is_active) == [algorithm_id |-> algorithm_id, node_type |-> node_type, order_index |-> order_index, is_active |-> is_active]

EdgeRow(algorithm_id, from_node_id, to_node_id, order_index, is_active) == [algorithm_id |-> algorithm_id, from_node_id |-> from_node_id, to_node_id |-> to_node_id, order_index |-> order_index, is_active |-> is_active]

(* db.add(row); db.commit(): the sequence of the table gives the next id. *)
Insert(rows, id, row) == [i \in DOMAIN rows \cup {id} |-> IF i = id THEN row ELSE rows[i]]

(* DELETE of the rows ids. *)
Without(rows, ids) == [i \in DOMAIN rows \ ids |-> rows[i]]

(* to_dict of a row: the columns and the id; None is a dict without columns. *)
None == [id |-> NULL]

AlgorithmDict(algs, id) == [id |-> id, start_node_id |-> algs[id].start_node_id, view_count |-> algs[id].view_count, usage_count |-> algs[id].usage_count]

NodeDict(ns, id) == IF id = NULL THEN None ELSE [id |-> id, algorithm_id |-> ns[id].algorithm_id, node_type |-> ns[id].node_type, order_index |-> ns[id].order_index, is_active |-> ns[id].is_active]

EdgeDict(es, id) == [id |-> id, algorithm_id |-> es[id].algorithm_id, from_node_id |-> es[id].from_node_id, to_node_id |-> es[id].to_node_id, order_index |-> es[id].order_index, is_active |-> es[id].is_active]

NodeDicts(ns, ids) == [i \in DOMAIN ids |-> NodeDict(ns, ids[i])]

EdgeDicts(es, ids) == [i \in DOMAIN ids |-> EdgeDict(es, ids[i])]

(* The orders in which a SELECT without ORDER BY may return the rows S:  *)
(* SQL promises none, so every order is an outcome.                      *)
AnyOrder(S) == {s \in [1..Cardinality(S) -> S] : \A i, j \in 1..Cardinality(S) : i # j => s[i] # s[j]}

(* .order_by(order_index): ascending, rows of equal order_index in any order. *)
OrderByIndex(rows, S) == {s \in AnyOrder(S) : \A i, j \in 1..Cardinality(S) : i < j => rows[s[i]].order_index <= rows[s[j]].order_index}

get_algorithm_by_id(algs, algorithm_id) == IF algorithm_id \in DOMAIN algs THEN algorithm_id ELSE NULL

get_algorithm_node_by_id(ns, node_id) == IF node_id \in DOMAIN ns THEN node_id ELSE NULL

ActiveNodes(ns, algorithm_id) == {n \in DOMAIN ns : ns[n].algorithm_id = algorithm_id /\ ns[n].is_active}

ActiveEdges(es, algorithm_id) == {e \in DOMAIN es : es[e].algorithm_id = algorithm_id /\ es[e].is_active}

(* Mutation of get_algorithm_nodes_by_algorithm: the filter on is_active is *)
(* missing.                                                                *)
get_algorithm_nodes_by_algorithm_Unfiltered(ns, algorithm_id) == OrderByIndex(ns, {n \in DOMAIN ns : ns[n].algorithm_id = algorithm_id})

(* The lists the query may return. *)
get_algorithm_nodes_by_algorithm(ns, algorithm_id) == OrderByIndex(ns, ActiveNodes(ns, algorithm_id))

get_algorithm_edges_by_algorithm(es, algorithm_id) == OrderByIndex(es, ActiveEdges(es, algorithm_id))

(* Mutation of get_outgoing_edges_from_node: the query without its order_by. *)
get_outgoing_edges_from_node_Unordered(es, node_id) == AnyOrder({e \in DOMAIN es : es[e].from_node_id = node_id /\ es[e].is_active})

get_outgoing_edges_from_node(es, node_id) == OrderByIndex(es, {e \in DOMAIN es : es[e].from_node_id = node_id /\ es[e].is_active})

get_incoming_edges_to_node(es, node_id) == OrderByIndex(es, {e \in DOMAIN es : es[e].to_node_id = node_id /\ es[e].is_active})

(* The rows the fallback query of get_algorithm_start_node matches. *)
StartTypeNodes(ns, algorithm_id) == {n \in ActiveNodes(ns, algorithm_id) : ns[n].node_type = "start"}

(* crud.get_algorithm_start_node: the nodes it may return (NULL for None).  *)
(* With start_node_id set it returns the row of that id, whatever its       *)
(* algorithm or is_active, or None when the id is dangling (the column has  *)
(* no foreign key).  Otherwise it takes .first() of the active start-type   *)
(* nodes, a query without ORDER BY: any of the matching rows.               *)
get_algorithm_start_node(algs, ns, algorithm_id) ==
    IF get_algorithm_by_id(algs, algorithm_id) = NULL \/ algs[algorithm_id].start_node_id = NULL
    THEN IF StartTypeNodes(ns, algorithm_id) = {} THEN {NULL}
         ELSE StartTypeNodes(ns, algorithm_id)
    ELSE {get_algorithm_node_by_id(ns, algs[algorithm_id].start_node_id)}

increment_algorithm_view_count(algs, algorithm_id) == [algs EXCEPT ![algorithm_id].view_count = @ + 1]

(* Mutation of increment_algorithm_usage_count: the copy of the view  *)
(* counter's function that still counts views.                        *)
increment_algorithm_usage_count_CountsView(algs, algorithm_id) == [algs EXCEPT ![algorithm_id].view_count = @ + 1]

increment_algorithm_usage_count(algs, algorithm_id) == [algs EXCEPT ![algorithm_id].usage_count = @ + 1]

(* crud.get_algorithm_with_nodes_and_edges assigns the lists of the active  *)
(* nodes and edges to algorithm.nodes and algorithm.edges.  Both are        *)
(* relationships with cascade="all, delete-orphan": the rows of the         *)
(* algorithm that the new list leaves out, the inactive ones, are orphans,  *)
(* and the next flush of the session deletes them.                          *)
OrphanNodes(ns, algorithm_id) == {n \in DOMAIN ns : ns[n].algorithm_id = algorithm_id /\ ~ns[n].is_active}

OrphanEdges(es, algorithm_id) == {e \in DOMAIN es : es[e].algorithm_id = algorithm_id /\ ~es[e].is_active}

(* Deleting a node sets from_node_id / to_node_id of the edges that stay to *)
(* NULL (outgoing_edges and incoming_edges have no cascade); both columns   *)
(* are NOT NULL, so the flush raises IntegrityError.                        *)
FlushFails(ns, es, algorithm_id) ==
    \E e \in DOMAIN es \ OrphanEdges(es, algorithm_id) :
        \/ es[e].from_node_id \in OrphanNodes(ns, algorithm_id)
        \/ es[e].to_node_id \in OrphanNodes(ns, algorithm_id)

(* What a handler answers: the status and the parts of the body. *)
Ok(algorithm, node_list, edge_list, start_node) == [status |-> 200, detail |-> "", algorithm |-> algorithm, nodes |-> node_list, edges |-> edge_list, start_node |-> start_node]

HTTPException(status_code, detail) == [status |-> status_code, detail |-> detail, algorithm |-> None, nodes |-> << >>, edges |-> << >>, start_node |-> None]

(* The algorithm ids the requests ask for: one that the tables of every   *)
(* specification come to hold, and one that none of them holds.           *)
RequestedIds == {1, 3}

(* An id of a node, and an id no node has. *)
RequestedNodes == DOMAIN nodes \cup {seq.nodes + 1}

(* GET /algorithms/{algorithm_id} *)
GetAlgorithm ==
    /\ pc = "idle"
    /\ \E a \in RequestedIds :
          /\ fn' = "get_algorithm"
          /\ args' = [algorithm_id |-> a, node_id |-> NULL]
          /\ IF get_algorithm_by_id(algorithms, a) = NULL
             THEN /\ result' = HTTPException(404, "Algoritmo no encontrado")
                  /\ UNCHANGED algorithms
             ELSE /\ algorithms[a].view_count < MaxCount
                  /\ algorithms' = increment_algorithm_view_count(algorithms, a)
                  /\ result' = Ok(AlgorithmDict(algorithms', a), << >>, << >>, None)
    /\ pc' = "done"
    /\ UNCHANGED <<nodes, edges, users, seq, seeder, sessions>>

(* GET /algorithms/{algorithm_id}/full.  The commit of the usage increment  *)
(* flushes the deletion of the orphans and expires the loaded objects       *)
(* (expire_on_commit), so algorithm.nodes and algorithm.edges are read      *)
(* again for the answer through the relationships, which filter on          *)
(* algorithm_id only and carry no order_by.  An IntegrityError of the flush *)
(* leaves the handler as a 500 and the session is rolled back on close.     *)
GetAlgorithmFull ==
    /\ pc = "idle"
    /\ \E a \in RequestedIds :
          /\ fn' = "get_algorithm_with_nodes_and_edges"
          /\ args' = [algorithm_id |-> a, node_id |-> NULL]
          /\ IF get_algorithm_by_id(algorithms, a) = NULL
             THEN /\ result' = HTTPException(404, "Algoritmo no encontrado")
                  /\ UNCHANGED <<algorithms, nodes, edges>>
             ELSE IF FlushFails(nodes, edges, a)
             THEN /\ result' = HTTPException(500, "IntegrityError")
                  /\ UNCHANGED <<algorithms, nodes, edges>>
             ELSE /\ algorithms[a].usage_count < MaxCount
                  /\ algorithms' = increment_algorithm_usage_count(algorithms, a)
                  /\ nodes' = Without(nodes, OrphanNodes(nodes, a))
                  /\ edges' = Without(edges, OrphanEdges(edges, a))
                  /\ \E node_list \in AnyOrder({n \in DOMAIN nodes' : nodes'[n].algorithm_id = a}),
                        edge_list \in AnyOrder({e \in DOMAIN edges' : edges'[e].algorithm_id = a}),
                        start_node \in get_algorithm_start_node(algorithms', nodes', a) :
                        result' = Ok(AlgorithmDict(algorithms', a),
                                     NodeDicts(nodes', node_list),
                                     EdgeDicts(edges', edge_list),
                                     NodeDict(nodes', start_node))
    /\ pc' = "done"
    /\ UNCHANGED <<users, seq, seeder, sessions>>

(* GET /algorithms/{algorithm_id}/start-node *)
GetStartNode ==
    /\ pc = "idle"
    /\ \E a \in RequestedIds : \E start_node \in get_algorithm_start_node(algorithms, nodes, a) :
          /\ fn' = "get_algorithm_start_node"
          /\ args' = [algorithm_id |-> a, node_id |-> NULL]
          /\ result' = IF start_node = NULL
                       THEN HTTPException(404, "Nodo inicial no encontrado")
                       ELSE Ok(None, << >>, << >>, NodeDict(nodes, start_node))
    /\ pc' = "done"
    /\ UNCHANGED <<storeVars, seeder, sessions>>

(* GET /algorithms/{algorithm_id}/nodes/{node_id}/edges *)
GetOutgoingEdges ==
    /\ pc = "idle"
    /\ \E a \in RequestedIds, n \in RequestedNodes :
          /\ fn' = "get_outgoing_edges_from_node"
          /\ args' = [algorithm_id |-> a, node_id |-> n]
          /\ IF get_algorithm_node_by_id(nodes, n) = NULL \/ nodes[n].algorithm_id # a
             THEN result' = HTTPException(404, "Nodo no encontrado o no pertenece al algoritmo")
             ELSE \E edge_list \in get_outgoing_edges_from_node(edges, n) :
                     result' = Ok(None, << >>, EdgeDicts(edges, edge_list), None)
    /\ pc' = "done"
    /\ UNCHANGED <<storeVars, seeder, sessions>>

(* crud.get_algorithm_nodes_by_algorithm, called on its own. *)
ListNodes ==
    /\ pc = "idle"
    /\ \E a \in RequestedIds : \E node_list \in get_algorithm_nodes_by_algorithm(nodes, a) :
          /\ fn' = "get_algorithm_nodes_by_algorithm"
          /\ args' = [algorithm_id |-> a, node_id |-> NULL]
          /\ result' = Ok(None, NodeDicts(nodes, node_list), << >>, None)
    /\ pc' = "done"
    /\ UNCHANGED <<storeVars, seeder, sessions>>

(* crud.get_incoming_edges_to_node, called on its own. *)
GetIncomingEdges ==
    /\ pc = "idle"
    /\ \E n \in RequestedNodes : \E edge_list \in get_incoming_edges_to_node(edges, n) :
          /\ fn' = "get_incoming_edges_to_node"
          /\ args' = [algorithm_id |-> NULL, node_id |-> n]
          /\ result' = Ok(None, << >>, EdgeDicts(edges, edge_list), None)
    /\ pc' = "done"
    /\ UNCHANGED <<storeVars, seeder, sessions>>

(* ------------------------------------------------------------------ *)
(* Rows written through models.py; the graph read between the writes   *)
(* ------------------------------------------------------------------ *)

(* The algorithms the tables hold from the start: the one the requests ask *)
(* for and another one.                                                    *)
AlgorithmIds == {1, 2}

NodeTypes == {"start", "action"}

OrderIndexes == {1, 2}

(* The algorithm whose start_node_id is written. *)
WrittenIds == {1}

GraphInit ==
    /\ pc = "idle" /\ fn = "" /\ args = NoCall /\ result = NoCall
    /\ users = {1}
    /\ algorithms = [a \in AlgorithmIds |-> AlgorithmRow(NULL, 0, 0)]
    /\ edges = NoRows
    /\ seeder = [pc |-> "off"]
    /\ sessions = NoRows

NodeInit ==
    /\ GraphInit
    /\ nodes = NoRows
    /\ seq = [algorithms |-> Cardinality(AlgorithmIds), nodes |-> 0, edges |-> 0]

(* INSERT INTO algorithm_nodes: algorithm_id is a foreign key, NOT NULL;  *)
(* node_type, order_index and is_active are free.                         *)
InsertNode ==
    /\ pc = "idle"
    /\ seq.nodes < MaxNodes
    /\ \E a \in DOMAIN algorithms, node_type \in NodeTypes, order_index \in OrderIndexes, is_active \in BOOLEAN :
          nodes' = Insert(nodes, seq.nodes + 1, NodeRow(a, node_type, order_index, is_active))
    /\ seq' = [seq EXCEPT !.nodes = @ + 1]
    /\ UNCHANGED <<callVars, algorithms, edges, users, seeder, sessions>>

(* UPDATE algorithms SET start_node_id: a nullable Integer without a *)
(* foreign key, so any id is stored, also one that no node has.      *)
SetStartNodeId ==
    /\ pc = "idle"
    /\ \E a \in WrittenIds, node_id \in {NULL} \cup (1..seq.nodes) :
          /\ algorithms[a].start_node_id # node_id
          /\ algorithms' = [algorithms EXCEPT ![a].start_node_id = node_id]
    /\ UNCHANGED <<callVars, nodes, edges, users, seq, seeder, sessions>>

NodeNext ==
    \/ InsertNode
    \/ SetStartNodeId
    \/ GetAlgorithmFull
    \/ GetStartNode
    \/ ListNodes
    \/ NextCall

NodeSpec == NodeInit /\ [][NodeNext]_vars

(* Two nodes of algorithm 1, the second one active or not, and a node of *)
(* algorithm 2.                                                          *)
EdgeInit ==
    /\ GraphInit
    /\ \E is_active \in BOOLEAN :
          nodes = Insert(Insert(Insert(NoRows, 1, NodeRow(1, "start", 1, TRUE)), 2, NodeRow(1, "action", 2, is_active)), 3, NodeRow(2, "start", 1, TRUE))
    /\ seq = [algorithms |-> Cardinality(AlgorithmIds), nodes |-> 3, edges |-> 0]

(* Where the edges written start and end. *)
EdgeSources == {1, 3}

EdgeTargets == {2}

(* INSERT INTO algorithm_edges: algorithm_id, from_node_id and to_node_id   *)
(* are foreign keys, NOT NULL, each checked on its own: nothing compares    *)
(* the algorithm of the edge with the algorithm of its nodes.               *)
InsertEdge ==
    /\ pc = "idle"
    /\ seq.edges < MaxEdges
    /\ \E a \in DOMAIN algorithms, from_node_id \in EdgeSources \cap DOMAIN nodes, to_node_id \in EdgeTargets \cap DOMAIN nodes, order_index \in OrderIndexes, is_active \in BOOLEAN :
          edges' = Insert(edges, seq.edges + 1, EdgeRow(a, from_node_id, to_node_id, order_index, is_active))
    /\ seq' = [seq EXCEPT !.edges = @ + 1]
    /\ UNCHANGED <<callVars, algorithms, nodes, users, seeder, sessions>>

EdgeNext ==
    \/ InsertEdge
    \/ GetAlgorithm
    \/ GetAlgorithmFull
    \/ GetStartNode
    \/ GetOutgoingEdges
    \/ GetIncomingEdges
    \/ NextCall

EdgeSpec == EdgeInit /\ [][EdgeNext]_vars

(* ------------------------------------------------------------------ *)
(* seed_sample_algorithms, with readers between its commits            *)
(* ------------------------------------------------------------------ *)

(* The rows the seeder writes: four nodes of order_index 1..4, the first   *)
(* of type start, and three edges; is_active takes its default, True.      *)
SampleNodes(algorithm_id) == << NodeRow(algorithm_id, "start", 1, TRUE), NodeRow(algorithm_id, "decision", 2, TRUE), NodeRow(algorithm_id, "action", 3, TRUE), NodeRow(algorithm_id, "action", 4, TRUE) >>

SampleEdges(algorithm_id, node_ids) == << EdgeRow(algorithm_id, node_ids[1], node_ids[2], 1, TRUE), EdgeRow(algorithm_id, node_ids[2], node_ids[3], 2, TRUE), EdgeRow(algorithm_id, node_ids[2], node_ids[4], 3, TRUE) >>

(* db.add of each row of new, then one commit; last is the sequence. *)
InsertAll(rows, last, new) == [i \in DOMAIN rows \cup ((last + 1)..(last + Len(new))) |-> IF i \in DOMAIN rows THEN rows[i] ELSE new[i - last]]

(* The ids the tables hold; the seeder keeps what it found when called. *)
Snapshot == [algorithms |-> DOMAIN algorithms, nodes |-> DOMAIN nodes, edges |-> DOMAIN edges]

(* The seeder between two calls: what the last call returned. *)
SeederIdle(returned, before) == [pc |-> "idle", returned |-> returned, algorithm_id |-> NULL, node_ids |-> << >>, before |-> before]

SeedInit ==
    /\ pc = "idle" /\ fn = "" /\ args = NoCall /\ result = NoCall
    /\ users \in {{}, {1}}
    /\ algorithms = NoRows /\ nodes = NoRows /\ edges = NoRows
    /\ seq = [algorithms |-> 0, nodes |-> 0, edges |-> 0]
    /\ seeder = SeederIdle("none", Snapshot)
    /\ sessions = NoRows

(* POST /algorithms/seed *)
SeedCall ==
    /\ seeder.pc = "idle"
    /\ seeder' = [SeederIdle("none", Snapshot) EXCEPT !.pc = "count"]
    /\ UNCHANGED <<callVars, storeVars, sessions>>

(* if db.query(Algorithm).count() > 0: return True *)
SeedCount ==
    /\ seeder.pc = "count"
    /\ seeder' = IF Cardinality(DOMAIN algorithms) > 0
                 THEN SeederIdle("True", seeder.before)
                 ELSE [seeder EXCEPT !.pc = "user"]
    /\ UNCHANGED <<callVars, storeVars, sessions>>

(* A superuser, else any user; without one: return False *)
SeedFindUser ==
    /\ seeder.pc = "user"
    /\ seeder' = IF users = {}
                 THEN SeederIdle("False", seeder.before)
                 ELSE [seeder EXCEPT !.pc = "algorithm"]
    /\ UNCHANGED <<callVars, storeVars, sessions>>

(* db.add(db_algorithm); db.commit(); db.refresh(db_algorithm) *)
SeedAlgorithm ==
    /\ seeder.pc = "algorithm"
    /\ algorithms' = Insert(algorithms, seq.algorithms + 1, AlgorithmRow(NULL, 0, 0))
    /\ seq' = [seq EXCEPT !.algorithms = @ + 1]
    /\ seeder' = [seeder EXCEPT !.pc = "nodes", !.algorithm_id = seq.algorithms + 1]
    /\ UNCHANGED <<callVars, nodes, edges, users, sessions>>

(* db.add(db_node) for the four nodes; db.commit() *)
SeedNodes ==
    /\ seeder.pc = "nodes"
    /\ nodes' = InsertAll(nodes, seq.nodes, SampleNodes(seeder.algorithm_id))
    /\ seq' = [seq EXCEPT !.nodes = @ + 4]
    /\ seeder' = [seeder EXCEPT !.pc = "start", !.node_ids = [i \in 1..4 |-> seq.nodes + i]]
    /\ UNCHANGED <<callVars, algorithms, edges, users, sessions>>

(* db_algorithm.start_node_id = nodes[0].id; db.commit(): the UPDATE sets *)
(* the one column that changed.                                           *)
SeedStartNodeId ==
    /\ seeder.pc = "start"
    /\ algorithms' = [algorithms EXCEPT ![seeder.algorithm_id].start_node_id = seeder.node_ids[1]]
    /\ seeder' = [seeder EXCEPT !.pc = "edges"]
    /\ UNCHANGED <<callVars, nodes, edges, users, seq, sessions>>

(* db.add(db_edge) for the three edges; db.commit(); return True *)
SeedEdges ==
    /\ seeder.pc = "edges"
    /\ edges' = InsertAll(edges, seq.edges, SampleEdges(seeder.algorithm_id, seeder.node_ids))
    /\ seq' = [seq EXCEPT !.edges = @ + 3]
    /\ seeder' = SeederIdle("True", seeder.before)
    /\ UNCHANGED <<callVars, algorithms, nodes, users, sessions>>

(* except Exception: db.rollback(); return False.  A statement or a commit *)
(* of the step at hand raises (the connection drops, the database refuses  *)
(* the write); the rollback undoes that step, and what the earlier commits *)
(* wrote stays.                                                            *)
SeedRaise ==
    /\ seeder.pc \in {"count", "user", "algorithm", "nodes", "start", "edges"}
    /\ seeder' = SeederIdle("False", seeder.before)
    /\ UNCHANGED <<callVars, storeVars, sessions>>

SeedNext ==
    \/ SeedCall
    \/ SeedCount
    \/ SeedFindUser
    \/ SeedAlgorithm
    \/ SeedNodes
    \/ SeedStartNodeId
    \/ SeedEdges
    \/ SeedRaise
    \/ GetAlgorithm
    \/ GetAlgorithmFull
    \/ GetStartNode
    \/ GetOutgoingEdges
    \/ NextCall

SeedSpec == SeedInit /\ [][SeedNext]_vars

(* ------------------------------------------------------------------ *)
(* Requests that run at the same time, each in its own session         *)
(* ------------------------------------------------------------------ *)

(* How many requests run at once. *)
Sessions == 3

(* The tables after one complete run of the seeder. *)
SeededAlgorithms == Insert(NoRows, 1, AlgorithmRow(1, 0, 0))

SeededNodes == InsertAll(NoRows, 0, SampleNodes(1))

SeededEdges == InsertAll(NoRows, 0, SampleEdges(1, <<1, 2, 3, 4>>))

(* A session: the handler it runs, where it stands, and what its SELECT *)
(* loaded into the objects it holds.                                    *)
Session(at, handler, algorithm_id, loaded, orphan_nodes, orphan_edges, status) == [pc |-> at, fn |-> handler, algorithm_id |-> algorithm_id, loaded |-> loaded, orphan_nodes |-> orphan_nodes, orphan_edges |-> orphan_edges, status |-> status]

SessionIdle == Session("idle", "", NULL, NULL, {}, {}, NULL)

CounterInit ==
    /\ pc = "idle" /\ fn = "" /\ args = NoCall /\ result = NoCall
    /\ users = {1}
    /\ algorithms = SeededAlgorithms /\ nodes = SeededNodes /\ edges = SeededEdges
    /\ seq = [algorithms |-> 1, nodes |-> 4, edges |-> 3]
    /\ seeder = [pc |-> "off"]
    /\ sessions = [s \in 1..Sessions |-> SessionIdle]

(* The first statement of get_algorithm and of the full fetch: the SELECT  *)
(* of crud.get_algorithm_by_id brings the row, counters included, into the *)
(* session; the full fetch also loads the nodes and edges and assigns the  *)
(* active ones.  Without a row the handler answers 404.                    *)
SessionLoad(s) ==
    /\ sessions[s].pc = "idle"
    /\ \E handler \in {"get_algorithm", "get_algorithm_with_nodes_and_edges"}, a \in RequestedIds :
          sessions' = [sessions EXCEPT ![s] =
              IF get_algorithm_by_id(algorithms, a) = NULL
              THEN Session("done", handler, a, NULL, {}, {}, 404)
              ELSE IF handler = "get_algorithm"
              THEN Session("loaded", handler, a, algorithms[a].view_count, {}, {}, NULL)
              ELSE Session("loaded", handler, a, algorithms[a].usage_count, OrphanNodes(nodes, a), OrphanEdges(edges, a), NULL)]
    /\ UNCHANGED <<callVars, storeVars, seeder>>

(* increment_algorithm_view_count / increment_algorithm_usage_count: the   *)
(* second get_algorithm_by_id returns the object the session already       *)
(* holds, `+= 1` adds to the value that object loaded, and the commit      *)
(* writes the sum: UPDATE algorithms SET usage_count = <loaded + 1>.  The  *)
(* flush deletes the orphans of the full fetch.  The answer is put         *)
(* together after the commit and writes nothing.                           *)
SessionCommit(s) ==
    /\ sessions[s].pc = "loaded"
    /\ LET a == sessions[s].algorithm_id
           kept == DOMAIN edges \ sessions[s].orphan_edges
       IN  IF \E e \in kept : edges[e].from_node_id \in sessions[s].orphan_nodes \/ edges[e].to_node_id \in sessions[s].orphan_nodes
           THEN /\ sessions' = [sessions EXCEPT ![s].pc = "done", ![s].status = 500]
                /\ UNCHANGED <<algorithms, nodes, edges>>
           ELSE /\ algorithms' = IF sessions[s].fn = "get_algorithm"
                                 THEN [algorithms EXCEPT ![a].view_count = sessions[s].loaded + 1]
                                 ELSE [algorithms EXCEPT ![a].usage_count = sessions[s].loaded + 1]
                /\ nodes' = Without(nodes, sessions[s].orphan_nodes)
                /\ edges' = Without(edges, sessions[s].orphan_edges)
                /\ sessions' = [sessions EXCEPT ![s].pc = "done", ![s].status = 200]
    /\ UNCHANGED <<callVars, users, seq, seeder>>

CounterNext ==
    \/ \E s \in 1..Sessions : SessionLoad(s)
    \/ \E s \in 1..Sessions : SessionCommit(s)

CounterSpec == CounterInit /\ [][CounterNext]_vars

(* ------------------------------------------------------------------ *)
(* seed_sample_algorithms called by several requests at once           *)
(* ------------------------------------------------------------------ *)

(* How many requests of POST /algorithms/seed run at once; gunicorn.conf.py *)
(* starts several workers, each serving requests in sessions of its own.    *)
Seeders == 2

(* A user and no algorithm; no seeder has been called.  Here sessions holds *)
(* the run of each seeder.  No statement fails in this specification: what  *)
(* a failing step leaves is the matter of SeedSpec.                         *)
SeedersInit ==
    /\ pc = "idle" /\ fn = "" /\ args = NoCall /\ result = NoCall
    /\ users = {1}
    /\ algorithms = NoRows /\ nodes = NoRows /\ edges = NoRows
    /\ seq = [algorithms |-> 0, nodes |-> 0, edges |-> 0]
    /\ seeder = [pc |-> "off"]
    /\ sessions = [s \in 1..Seeders |-> SeederIdle("none", Snapshot)]

(* POST /algorithms/seed *)
SeederCall(s) ==
    /\ sessions[s].pc = "idle"
    /\ sessions' = [sessions EXCEPT ![s] = [SeederIdle("none", Snapshot) EXCEPT !.pc = "count"]]
    /\ UNCHANGED <<callVars, storeVars, seeder>>

(* if db.query(Algorithm).count() > 0: return True *)
SeederCount(s) ==
    /\ sessions[s].pc = "count"
    /\ sessions' = [sessions EXCEPT ![s] =
                       IF Cardinality(DOMAIN algorithms) > 0
                       THEN SeederIdle("True", sessions[s].before)
                       ELSE [sessions[s] EXCEPT !.pc = "user"]]
    /\ UNCHANGED <<callVars, storeVars, seeder>>

(* A superuser, else any user; without one: return False *)
SeederFindUser(s) ==
    /\ sessions[s].pc = "user"
    /\ sessions' = [sessions EXCEPT ![s] =
                       IF users = {}
                       THEN SeederIdle("False", sessions[s].before)
                       ELSE [sessions[s] EXCEPT !.pc = "algorithm"]]
    /\ UNCHANGED <<callVars, storeVars, seeder>>

(* db.add(db_algorithm); db.commit(); db.refresh(db_algorithm): the only *)
(* unique column, uuid, is drawn anew, so no insert is refused.          *)
SeederAlgorithm(s) ==
    /\ sessions[s].pc = "algorithm"
    /\ algorithms' = Insert(algorithms, seq.algorithms + 1, AlgorithmRow(NULL, 0, 0))
    /\ seq' = [seq EXCEPT !.algorithms = @ + 1]
    /\ sessions' = [sessions EXCEPT ![s].pc = "nodes", ![s].algorithm_id = seq.algorithms + 1]
    /\ UNCHANGED <<callVars, nodes, edges, users, seeder>>

(* db.add(db_node) for the four nodes; db.commit() *)
SeederNodes(s) ==
    /\ sessions[s].pc = "nodes"
    /\ nodes' = InsertAll(nodes, seq.nodes, SampleNodes(sessions[s].algorithm_id))
    /\ seq' = [seq EXCEPT !.nodes = @ + 4]
    /\ sessions' = [sessions EXCEPT ![s].pc = "start", ![s].node_ids = [i \in 1..4 |-> seq.nodes + i]]
    /\ UNCHANGED <<callVars, algorithms, edges, users, seeder>>

(* db_algorithm.start_node_id = nodes[0].id; db.commit() *)
SeederStartNodeId(s) ==
    /\ sessions[s].pc = "start"
    /\ algorithms' = [algorithms EXCEPT ![sessions[s].algorithm_id].start_node_id = sessions[s].node_ids[1]]
    /\ sessions' = [sessions EXCEPT ![s].pc = "edges"]
    /\ UNCHANGED <<callVars, nodes, edges, users, seq, seeder>>

(* db.add(db_edge) for the three edges; db.commit(); return True *)
SeederEdges(s) ==
    /\ sessions[s].pc = "edges"
    /\ edges' = InsertAll(edges, seq.edges, SampleEdges(sessions[s].algorithm_id, sessions[s].node_ids))
    /\ seq' = [seq EXCEPT !.edges = @ + 3]
    /\ sessions' = [sessions EXCEPT ![s] = SeederIdle("True", sessions[s].before)]
    /\ UNCHANGED <<callVars, algorithms, nodes, users, seeder>>

SeedersNext ==
    \/ \E s \in 1..Seeders : SeederCall(s)
    \/ \E s \in 1..Seeders : SeederCount(s)
    \/ \E s \in 1..Seeders : SeederFindUser(s)
    \/ \E s \in 1..Seeders : SeederAlgorithm(s)
    \/ \E s \in 1..Seeders : SeederNodes(s)
    \/ \E s \in 1..Seeders : SeederStartNodeId(s)
    \/ \E s \in 1..Seeders : SeederEdges(s)

SeedersSpec == SeedersInit /\ [][SeedersNext]_vars


(* ================================================================== *)
(* Properties                                                          *)
(* ================================================================== *)

Flag(b) == IF b THEN 1 ELSE 0

(* ---- calculate_curb65 ---- *)

Curb65Called == pc = "done" /\ fn = "calculate_curb65"

Curb65InRange(a) ==
    /\ T(0) <= a.urea /\ a.urea <= T(500)
    /\ 0 <= a.respiratory_rate /\ a.respiratory_rate <= 100
    /\ 40 <= a.blood_pressure_systolic /\ a.blood_pressure_systolic <= 300
    /\ 20 <= a.blood_pressure_diastolic /\ a.blood_pressure_diastolic <= 200
    /\ 0 <= a.age /\ a.age <= 150

(* The indicator conditions of CURB-65 that the arguments satisfy. *)
Curb65Satisfied(a) ==
    {c \in {"C", "U", "R", "B", "65"} :
        \/ c = "C" /\ a.confusion
        \/ c = "U" /\ a.urea > T(19)
        \/ c = "R" /\ a.respiratory_rate >= 30
        \/ c = "B" /\ (a.blood_pressure_systolic < 90 \/ a.blood_pressure_diastolic <= 60)
        \/ c = "65" /\ a.age >= 65}

(* Arguments that sit on the thresholds without crossing any: urea 19, *)
(* systolic 90, and the three others one step short.                   *)
Curb65OnThresholds(a, respiratory_rate, diastolic, age) ==
    /\ ~a.confusion /\ a.urea = T(19) /\ a.blood_pressure_systolic = 90
    /\ a.respiratory_rate = respiratory_rate
    /\ a.blood_pressure_diastolic = diastolic
    /\ a.age = age

(* C1: for every input inside the validated ranges the CURB-65 score is the  *)
(* number of satisfied conditions among confusion, urea > 19,                *)
(* respiratory_rate >= 30, systolic < 90 or diastolic <= 60, age >= 65, so   *)
(* it lies in 0..5; respiratory_rate = 30, age = 65 and diastolic = 60 each  *)
(* count, urea = 19 does not, systolic = 90 does not on its own.             *)
C1_Curb65ScoreCountsConditions ==
    (Curb65Called /\ Curb65InRange(args)) =>
        /\ result.raised = ""
        /\ result.score = Cardinality(Curb65Satisfied(args))
        /\ result.score \in 0..5
        /\ Curb65OnThresholds(args, 29, 61, 64) => result.score = 0
        /\ Curb65OnThresholds(args, 30, 61, 64) => result.score = 1
        /\ Curb65OnThresholds(args, 29, 60, 64) => result.score = 1
        /\ Curb65OnThresholds(args, 29, 61, 65) => result.score = 1

C1_Witness ==
    /\ Curb65Called
    /\ Curb65OnThresholds(args, 30, 60, 65)
    /\ result.raised = "" /\ result.score = 3

(* C2: CURB-65 maps score 0 and 1 to Low, 2 to Moderate, 3 to High and 4 or *)
(* more to Severe, for every valid input; every score 0..5 has one bucket.  *)
C2_Curb65RiskBuckets ==
    (Curb65Called /\ Curb65InRange(args)) =>
        /\ result.raised = ""
        /\ result.score \in 0..5
        /\ result.risk_level \in RiskLevel
        /\ result.risk_level = LOW <=> result.score \in {0, 1}
        /\ result.risk_level = MODERATE <=> result.score = 2
        /\ result.risk_level = HIGH <=> result.score = 3
        /\ result.risk_level = SEVERE <=> result.score >= 4

C2_Witness ==
    /\ Curb65Called /\ result.raised = ""
    /\ result.score = 5 /\ result.risk_level = SEVERE

WellsPeCalled == pc = "done" /\ fn = "calculate_wells_pe"

(* The weights of the Wells criteria, in tenths of a point. *)
WellsPeWeightedSum(a) ==
      30 * Flag(a.clinical_signs_dvt) + 30 * Flag(a.pe_likely)
    + 15 * (Flag(a.heart_rate_over_100) + Flag(a.immobilization_surgery)
            + Flag(a.previous_pe_dvt))
    + 10 * (Flag(a.hemoptysis) + Flag(a.malignancy))

WellsPeAll(a, b) == \A f \in DOMAIN a : a[f] = b

GlasgowCalled == pc = "done" /\ fn = "calculate_glasgow_coma_scale"

GlasgowInRange(a) ==
    a.eye_opening \in 1..4 /\ a.verbal_response \in 1..5 /\ a.motor_response \in 1..6

C6_GlasgowRangeValidation ==
    (GlasgowCalled /\ ~GlasgowInRange(args)) =>
        /\ result.raised = "ValueError"
        /\ "score" \notin DOMAIN result

C6_Witness ==
    /\ GlasgowCalled
    /\ args.eye_opening = 4 /\ args.verbal_response = 5 /\ args.motor_response = 7
    /\ result.raised = "ValueError"

(* ---- calculate_chads2_vasc ---- *)

Chads2VascCalled == pc = "done" /\ fn = "calculate_chads2_vasc"

(* The points of the arguments other than age. *)
Chads2VascFlagPoints(a) ==
      Flag(a.congestive_heart_failure) + Flag(a.hypertension) + Flag(a.diabetes)
    + Flag(a.vascular_disease) + Flag(a.sex_female) + 2 * Flag(a.stroke_tia_history)

Chads2VascFlagsAll(a, b) ==
    \A f \in DOMAIN a \ {"age"} : a[f] = b

Chads2VascShown(score) == RoundF1(Chads2VascAnnualRisk(score))

(* C8: CHA2DS2-VASc maps score 0 and 1 to Low, 2 to Moderate and 3 or more  *)
(* to High; a High result shows the annual risk 3.2 + (score-3)*0.8 to one  *)
(* decimal (32 + 8*(score-3) tenths of a percent), so score 9 shows 8.0%    *)
(* and the shown value rises strictly with the score over 3..9.             *)
C8_Chads2VascRiskAndAnnualRisk ==
    (Chads2VascCalled /\ result.raised = "") =>
        /\ result.risk_level = LOW <=> result.score \in {0, 1}
        /\ result.risk_level = MODERATE <=> result.score = 2
        /\ result.risk_level = HIGH <=> result.score >= 3
        /\ result.score >= 3 =>
              LET tenths == 32 + 8 * (result.score - 3)
              IN  result.interpretation =
                      "Riesgo alto de stroke (CHA2DS2-VASc " \o ToString(result.score)
                      \o "). Riesgo anual: " \o ToString(tenths \div 10) \o "."
                      \o ToString(tenths % 10) \o "%"
        /\ Chads2VascShown(9) = 80
        /\ \A s \in 3..8 : Chads2VascShown(s) < Chads2VascShown(s + 1)

C8_Witness ==
    /\ Chads2VascCalled /\ result.raised = ""
    /\ result.score = 9 /\ result.risk_level = HIGH
    /\ result.interpretation = "Riesgo alto de stroke (CHA2DS2-VASc 9). Riesgo anual: 8.0%"

(* ---- calculate_apache_ii ---- *)

ApacheCalled == pc = "done" /\ fn = "calculate_apache_ii"

(* C9: the APACHE II score is the sum of the temperature points, the        *)
(* mean-arterial-pressure points, the heart-rate points, 15 minus           *)
(* glasgow_coma_scale, the age points (>= 75: 6, 65..74: 5, 55..64: 3,      *)
(* 45..54: 2, below 45: 0) and 5 when chronic_health; the risk is Low iff   *)
(* score <= 4, Moderate iff 5..14, High iff 15..24, Severe iff above 24.    *)
C9_ApacheScoreAndRisk ==
    ApacheCalled =>
        LET age_points ==
                CASE args.age >= 75 -> 6
                  [] args.age \in 65..74 -> 5
                  [] args.age \in 55..64 -> 3
                  [] args.age \in 45..54 -> 2
                  [] args.age < 45 -> 0
        IN  /\ result.raised = ""
            /\ result.score =
                     ApacheTemperaturePoints(args.temperature)
                   + ApacheMapPoints(args.mean_arterial_pressure)
                   + ApacheHeartRatePoints(args.heart_rate)
                   + (15 - args.glasgow_coma_scale)
                   + age_points
                   + 5 * Flag(args.chronic_health)
            /\ result.risk_level = LOW <=> result.score <= 4
            /\ result.risk_level = MODERATE <=> result.score \in 5..14
            /\ result.risk_level = HIGH <=> result.score \in 15..24
            /\ result.risk_level = SEVERE <=> result.score > 24

C9_Witness ==
    /\ ApacheCalled /\ result.raised = ""
    /\ args.age = 65 /\ args.chronic_health /\ args.glasgow_coma_scale = 15
    /\ result.score = 15 /\ result.risk_level = HIGH

(* What the score owes to the temperature: the score less every other term. *)
ApacheTemperatureShare ==
    result.score - ( ApacheMapPoints(args.mean_arterial_pressure)
                   + ApacheHeartRatePoints(args.heart_rate)
                   + (15 - args.glasgow_coma_scale)
                   + ApacheAgePoints(args.age)
                   + 5 * Flag(args.chronic_health) )

(* C10: the temperature contribution of APACHE II is first-match-wins: 4    *)
(* when temperature >= 41 or <= 29.9; else 3 when >= 39 or <= 31.9; else 1  *)
(* when >= 38.5 or <= 33.9; else 0.  So it is 0 exactly for temperatures    *)
(* strictly between 33.9 and 38.5.                                          *)
C10_ApacheTemperatureFirstMatch ==
    ApacheCalled =>
        LET t == args.temperature
        IN  /\ ApacheTemperatureShare =
                  (CASE t >= 410 \/ t <= 299 -> 4
                     [] ~(t >= 410 \/ t <= 299) /\ (t >= 390 \/ t <= 319) -> 3
                     [] ~(t >= 390 \/ t <= 319) /\ (t >= 385 \/ t <= 339) -> 1
                     [] OTHER -> 0)
            /\ ApacheTemperatureShare = 0 <=> (339 < t /\ t < 385)

C10_Witness ==
    /\ ApacheCalled /\ result.raised = ""
    /\ args.temperature = 385
    /\ ApacheTemperatureShare = 1

(* ---- arguments of the wrong type ---- *)

UntypedCalled == pc = "done" /\ fn \in {"calculate_curb65", "calculate_wells_pe", "calculate_glasgow_coma_scale", "calculate_chads2_vasc"}

(* Some parameter announced as bool holds a non-boolean, or some parameter *)
(* announced as a number holds a non-number.                               *)
Mistyped(f, a) ==
    \/ \E p \in BooleanParams(f) : a[p].type # "bool"
    \/ \E p \in NumericParams(f) : ~IsNumber(a[p])

(* C11: every call in which a boolean parameter receives a non-boolean     *)
(* value or a numeric parameter receives a non-numeric value raises a      *)
(* TypeError and returns no result; the error is not the range error.      *)
(* The code refutes it: calculate_wells_pe(clinical_signs_dvt = "yes")     *)
(* returns a score of 3.0 and calculate_curb65(confusion = None) scores    *)
(* like confusion = False.                                                 *)
C11_TypeMismatchRaisesTypeError ==
    (UntypedCalled /\ Mistyped(fn, args)) => result.raised = "TypeError"

(* ---- the algorithm graph ---- *)

(* A handler ran in this step: the call was idle and is now answered. *)
Handled(handler) == pc = "idle" /\ pc' = "done" /\ fn' = handler

Answered(handler) == pc = "done" /\ fn = handler

NodesOf(ns, algorithm_id) == {n \in DOMAIN ns : ns[n].algorithm_id = algorithm_id}

EdgesOf(es, algorithm_id) == {e \in DOMAIN es : es[e].algorithm_id = algorithm_id}

(* The rows of S with the smallest order_index. *)
SmallestOrderIndex(rows, S) == {n \in S : \A m \in S : rows[n].order_index <= rows[m].order_index}

StartNodeIdSet(a) == a \in DOMAIN algorithms /\ algorithms[a].start_node_id # NULL

(* C13: resolve start node returns the node start_node_id names when it is *)
(* set; otherwise the active start-type node of the algorithm with the     *)
(* smallest order_index; and an explicit not-found (404) when there is no  *)
(* such node, never an exception.  The code refutes the middle part: its   *)
(* fallback query has no ORDER BY.                                         *)
C13_StartNodeResolution ==
    Answered("get_algorithm_start_node") =>
        LET a == args.algorithm_id
        IN  /\ result.status \in {200, 404}
            /\ (StartNodeIdSet(a) /\ algorithms[a].start_node_id \in DOMAIN nodes) =>
                   /\ result.status = 200
                   /\ result.start_node = NodeDict(nodes, algorithms[a].start_node_id)
            /\ (StartNodeIdSet(a) /\ algorithms[a].start_node_id \notin DOMAIN nodes) =>
                   result.status = 404
            /\ (~StartNodeIdSet(a) /\ StartTypeNodes(nodes, a) = {}) => result.status = 404
            /\ (~StartNodeIdSet(a) /\ StartTypeNodes(nodes, a) # {}) =>
                   /\ result.status = 200
                   /\ result.start_node.id \in SmallestOrderIndex(nodes, StartTypeNodes(nodes, a))

(* The part of C13 the code keeps: as above, with any active start-type  *)
(* node as the fallback.                                                 *)
StartNodeResolutionAnyOrder ==
    Answered("get_algorithm_start_node") =>
        LET a == args.algorithm_id
        IN  /\ result.status \in {200, 404}
            /\ (StartNodeIdSet(a) /\ algorithms[a].start_node_id \in DOMAIN nodes) =>
                   /\ result.status = 200
                   /\ result.start_node = NodeDict(nodes, algorithms[a].start_node_id)
            /\ (StartNodeIdSet(a) /\ algorithms[a].start_node_id \notin DOMAIN nodes) =>
                   result.status = 404
            /\ (~StartNodeIdSet(a) /\ StartTypeNodes(nodes, a) = {}) => result.status = 404
            /\ (~StartNodeIdSet(a) /\ StartTypeNodes(nodes, a) # {}) =>
                   /\ result.status = 200
                   /\ result.start_node.id \in StartTypeNodes(nodes, a)

UsageUnchanged == \A a \in DOMAIN algorithms : a \in DOMAIN algorithms' /\ algorithms'[a].usage_count = algorithms[a].usage_count

ViewUnchanged == \A a \in DOMAIN algorithms : a \in DOMAIN algorithms' /\ algorithms'[a].view_count = algorithms[a].view_count

(* C14: every full fetch that succeeds raises usage_count of the fetched  *)
(* algorithm by exactly 1 (so that two in a row raise it by 2) and leaves *)
(* view_count and the counters of the other algorithms alone; a plain get *)
(* by id, a start-node read and an outgoing-edges read leave every        *)
(* usage_count unchanged.                                                 *)
C14_UsageCounter ==
    [][ /\ (Handled("get_algorithm_with_nodes_and_edges") /\ result'.status = 200) =>
               /\ algorithms'[args'.algorithm_id].usage_count = algorithms[args'.algorithm_id].usage_count + 1
               /\ result'.algorithm.usage_count = algorithms[args'.algorithm_id].usage_count + 1
               /\ \A a \in DOMAIN algorithms \ {args'.algorithm_id} : algorithms'[a].usage_count = algorithms[a].usage_count
               /\ ViewUnchanged
        /\ Handled("get_algorithm") => UsageUnchanged
        /\ Handled("get_algorithm_start_node") => UsageUnchanged
        /\ Handled("get_outgoing_edges_from_node") => UsageUnchanged ]_vars

(* Two full fetches were answered after a plain get: usage 2, view 1. *)
C14_Witness ==
    /\ Answered("get_algorithm_with_nodes_and_edges")
    /\ result.status = 200
    /\ result.algorithm.usage_count = 2
    /\ algorithms[args.algorithm_id].usage_count = 2
    /\ algorithms[args.algorithm_id].view_count = 1

(* ---- concurrent sessions ---- *)

AllDone == \A s \in 1..Sessions : sessions[s].pc = "done"

(* The requests of handler on algorithm a that completed with a commit. *)
Incremented(handler, a) == Cardinality({s \in 1..Sessions : sessions[s].pc = "done" /\ sessions[s].fn = handler /\ sessions[s].algorithm_id = a /\ sessions[s].status = 200})

(* C15: when the concurrent requests have all completed, each counter has *)
(* grown by the number of requests that incremented it (the counters      *)
(* start at 0), whatever the interleaving of their reads and writes.      *)
(* The code refutes it: two sessions load the same value and both write   *)
(* that value plus one.                                                   *)
C15_ConcurrentIncrementsNotLost ==
    AllDone =>
        \A a \in DOMAIN algorithms :
            /\ algorithms[a].usage_count = Incremented("get_algorithm_with_nodes_and_edges", a)
            /\ algorithms[a].view_count = Incremented("get_algorithm", a)

(* ---- seed_sample_algorithms ---- *)

(* The algorithm has its four nodes, its three edges and its start node. *)
Complete(algs, ns, es, a) ==
    /\ a \in DOMAIN algs
    /\ Cardinality(NodesOf(ns, a)) = 4
    /\ Cardinality(EdgesOf(es, a)) = 3
    /\ algs[a].start_node_id \in NodesOf(ns, a)

(* C16: when seed_sample_algorithms has returned False, the tables hold no *)
(* algorithm without its nodes, its start_node_id or its edges, and they   *)
(* hold the rows they held when it was called.  The code refutes it: each  *)
(* step is committed on its own and the rollback undoes only the last.     *)
C16_SeedAllOrNothing ==
    (seeder.pc = "idle" /\ seeder.returned = "False") =>
        /\ \A a \in DOMAIN algorithms : Complete(algorithms, nodes, edges, a)
        /\ Snapshot = seeder.before

(* C17: a reader that gets an answer about the new algorithm (a plain get, *)
(* a full fetch, a start-node read) reads it complete: otherwise it is     *)
(* answered not-found.  The code refutes it: the algorithm is committed    *)
(* before its nodes.                                                       *)
C17_NoPartialAlgorithmVisible ==
    [][ ( /\ \/ Handled("get_algorithm")
             \/ Handled("get_algorithm_with_nodes_and_edges")
             \/ Handled("get_algorithm_start_node")
          /\ result'.status = 200 )
        => Complete(algorithms, nodes, edges, args'.algorithm_id) ]_vars

(* ---- integrity and frame of the graph ---- *)

(* C18: in every state each edge starts and ends at nodes of the edge's   *)
(* own algorithm and each start_node_id that is set names a node of that  *)
(* algorithm; no write that breaks this is accepted.  The code refutes    *)
(* it: the columns are checked one by one, as foreign keys, or not at all *)
(* (start_node_id).                                                       *)
C18_GraphIntegrity ==
    /\ \A e \in DOMAIN edges :
          /\ edges[e].from_node_id \in NodesOf(nodes, edges[e].algorithm_id)
          /\ edges[e].to_node_id \in NodesOf(nodes, edges[e].algorithm_id)
    /\ \A a \in DOMAIN algorithms :
          algorithms[a].start_node_id # NULL => algorithms[a].start_node_id \in NodesOf(nodes, a)

(* A complete seeded algorithm is fetched in this step. *)
SeededFetched == Handled("get_algorithm_with_nodes_and_edges") /\ Complete(algorithms, nodes, edges, args'.algorithm_id)

(* The ids of a list of dicts. *)
Ids(dicts) == {dicts[i].id : i \in DOMAIN dicts}

(* The answer about the seeded algorithm but for the order of its nodes. *)
SeededAnswer(answer, a) ==
    /\ answer.status = 200
    /\ Len(answer.nodes) = 4 /\ Ids(answer.nodes) = NodesOf(nodes, a)
    /\ \A i \in 1..4 : answer.nodes[i] = NodeDict(nodes, answer.nodes[i].id)
    /\ Len(answer.edges) = 3 /\ Ids(answer.edges) = EdgesOf(edges, a)
    /\ \A i \in 1..3 : answer.edges[i] = EdgeDict(edges, answer.edges[i].id)
    /\ answer.start_node = NodeDict(nodes, algorithms[a].start_node_id)
    /\ answer.start_node.node_type = "start"
    /\ answer.start_node.order_index = 1

(* C19: a full fetch of the algorithm the seeder created answers with its *)
(* four nodes in ascending order_index, its three edges, and as           *)
(* start_node the node start_node_id names, the first one, of type start. *)
(* The code refutes the order: the answer lists algorithm.nodes as the    *)
(* relationship reloads it after the commit, not the sorted list.         *)
C19_SeededFullFetch ==
    [][ SeededFetched =>
            /\ SeededAnswer(result', args'.algorithm_id)
            /\ \A i \in 1..4 : result'.nodes[i].order_index = i ]_vars

(* The part of C19 the code keeps. *)
SeededFullFetchAnyOrder == [][ SeededFetched => SeededAnswer(result', args'.algorithm_id) ]_vars

TraversalRead ==
    \/ Handled("get_algorithm_with_nodes_and_edges")
    \/ Handled("get_algorithm_start_node")
    \/ Handled("get_algorithm_nodes_by_algorithm")
    \/ Handled("get_outgoing_edges_from_node")
    \/ Handled("get_incoming_edges_to_node")

(* C20: a traversal read leaves every node and every edge, active or not, *)
(* as it was; of the algorithms only usage_count of the one a full fetch  *)
(* reads changes.  The code refutes it: the full fetch deletes the        *)
(* inactive nodes and edges of the algorithm.                             *)
C20_TraversalReadsDoNotMutate ==
    [][ TraversalRead =>
            /\ nodes' = nodes
            /\ edges' = edges
            /\ DOMAIN algorithms' = DOMAIN algorithms
            /\ \A a \in DOMAIN algorithms :
                  /\ algorithms'[a].start_node_id = algorithms[a].start_node_id
                  /\ algorithms'[a].view_count = algorithms[a].view_count
                  /\ (algorithms'[a].usage_count # algorithms[a].usage_count) =>
                         /\ fn' = "get_algorithm_with_nodes_and_edges"
                         /\ args'.algorithm_id = a ]_vars

(* ---- the list queries ---- *)

(* The list of dicts is in ascending order_index. *)
Ascending(dicts) == \A i, j \in DOMAIN dicts : i < j => dicts[i].order_index <= dicts[j].order_index

(* The active edges that leave the node. *)
OutgoingOf(es, node_id) == {e \in DOMAIN es : es[e].from_node_id = node_id /\ es[e].is_active}

(* C21: list outgoing edges of a node of the algorithm answers with exactly *)
(* the active edges whose from_node_id is the node's id, each once, in      *)
(* ascending order_index; for a node no active edge leaves it answers 200   *)
(* with the empty list.                                                     *)
C21_OutgoingEdges ==
    Answered("get_outgoing_edges_from_node") =>
        LET n == args.node_id
        IN  /\ (n \in DOMAIN nodes /\ nodes[n].algorithm_id = args.algorithm_id) <=> result.status = 200
            /\ result.status = 200 =>
                  /\ Ids(result.edges) = OutgoingOf(edges, n)
                  /\ Len(result.edges) = Cardinality(OutgoingOf(edges, n))
                  /\ \A i \in DOMAIN result.edges : result.edges[i] = EdgeDict(edges, result.edges[i].id)
                  /\ Ascending(result.edges)
                  /\ OutgoingOf(edges, n) = {} => result.edges = << >>

(* Two edges leave node 1; the one inserted second has the smaller *)
(* order_index and is listed first.                                *)
C21_Witness ==
    /\ Answered("get_outgoing_edges_from_node") /\ result.status = 200
    /\ args.node_id = 1
    /\ Len(result.edges) = 2
    /\ result.edges[1].id = 2 /\ result.edges[1].order_index = 1
    /\ result.edges[2].id = 1 /\ result.edges[2].order_index = 2

(* The outgoing edges of a leaf: node 2 has incoming edges only. *)
LeafAnswered ==
    /\ Answered("get_outgoing_edges_from_node") /\ result.status = 200
    /\ args.node_id = 2 /\ edges # NoRows
    /\ result.edges = << >>

(* C22: list nodes of an algorithm returns exactly the nodes with that   *)
(* algorithm_id whose is_active is true, each once, in ascending         *)
(* order_index; inactive nodes and nodes of other algorithms never       *)
(* appear.                                                               *)
C22_ListNodes ==
    Answered("get_algorithm_nodes_by_algorithm") =>
        LET a == args.algorithm_id
        IN  /\ result.status = 200
            /\ Ids(result.nodes) = {n \in DOMAIN nodes : nodes[n].algorithm_id = a /\ nodes[n].is_active}
            /\ Len(result.nodes) = Cardinality(Ids(result.nodes))
            /\ \A i \in DOMAIN result.nodes :
                  /\ result.nodes[i] = NodeDict(nodes, result.nodes[i].id)
                  /\ result.nodes[i].is_active
                  /\ result.nodes[i].algorithm_id = a
            /\ Ascending(result.nodes)

(* Two active nodes of algorithm 1; the one inserted second has the *)
(* smaller order_index and is listed first.                        *)
C22_Witness ==
    /\ Answered("get_algorithm_nodes_by_algorithm") /\ args.algorithm_id = 1
    /\ Len(result.nodes) = 2
    /\ result.nodes[1].id = 2 /\ result.nodes[1].order_index = 1
    /\ result.nodes[2].id = 1 /\ result.nodes[2].order_index = 2

(* An inactive node of algorithm 1 and a node of algorithm 2: neither is *)
(* listed.                                                               *)
InactiveNotListed ==
    /\ Answered("get_algorithm_nodes_by_algorithm") /\ args.algorithm_id = 1
    /\ Cardinality(DOMAIN nodes) = 2
    /\ \E n \in DOMAIN nodes : nodes[n].algorithm_id = 1 /\ ~nodes[n].is_active
    /\ \E n \in DOMAIN nodes : nodes[n].algorithm_id = 2
    /\ result.nodes = << >>

(* ---- the counters over time ---- *)

(* C23: view_count and usage_count of every algorithm are monotonic: no   *)
(* step of any operation (record reads, full fetches, start-node and edge *)
(* reads, seeding) removes an algorithm or lowers one of its counters.    *)
(* The code refutes it for requests that overlap: a session that loaded   *)
(* the counter before two others incremented it writes its own, older     *)
(* value plus one.                                                        *)
C23_CountersMonotonic ==
    [][ \A a \in DOMAIN algorithms :
            /\ a \in DOMAIN algorithms'
            /\ algorithms'[a].view_count >= algorithms[a].view_count
            /\ algorithms'[a].usage_count >= algorithms[a].usage_count ]_vars

(* ---- the calculators against their tests ---- *)

(* C24: calculate_wells_pe with clinical_signs_dvt, heart_rate_over_100    *)
(* and immobilization_surgery true and the other flags false returns the   *)
(* score 6.0 with the risk level High ("Alto"), as                         *)
(* test_wells_pe_moderate_probability asserts.  The code refutes it: its   *)
(* second test is score <= 6.0, so 6.0 is Moderate.                        *)
C24_WellsPeSixIsHigh ==
    ( /\ WellsPeCalled
      /\ args.clinical_signs_dvt /\ args.heart_rate_over_100 /\ args.immobilization_surgery
      /\ ~args.pe_likely /\ ~args.previous_pe_dvt /\ ~args.hemoptysis /\ ~args.malignancy )
    => (result.raised = "" /\ result.score = 60 /\ result.risk_level = HIGH)

(* C25: calculate_curb65 refuses respiratory_rate = 0 with a ValueError    *)
(* and returns no result when every other input is valid, as               *)
(* test_curb65_invalid_inputs asserts.  The code refutes it: the range it  *)
(* validates is 0..100, ends included.                                     *)
C25_Curb65ZeroRateRejected ==
    (Curb65Called /\ args.respiratory_rate = 0 /\ Curb65InRange([args EXCEPT !.respiratory_rate = 1])) =>
        (result.raised = "ValueError" /\ "score" \notin DOMAIN result)

(* What the score owes to the mean arterial pressure. *)
ApacheMapShare ==
    result.score - ( ApacheTemperaturePoints(args.temperature)
                   + ApacheHeartRatePoints(args.heart_rate)
                   + (15 - args.glasgow_coma_scale)
                   + ApacheAgePoints(args.age)
                   + 5 * Flag(args.chronic_health) )

(* C26: the mean-arterial-pressure contribution of APACHE II is            *)
(* first-match-wins in the order of the code: 4 when MAP >= 160 or         *)
(* MAP <= 49; else 2 when MAP >= 130 or MAP <= 69; else 2 when             *)
(* MAP <= 109; else 0.  So it is 0 exactly when 109 < MAP < 130, and       *)
(* every MAP in 70..109 gives 2.                                           *)
C26_ApacheMapFirstMatch ==
    ApacheCalled =>
        LET m == args.mean_arterial_pressure
        IN  /\ ApacheMapShare =
                  (CASE m >= 1600 \/ m <= 490 -> 4
                     [] ~(m >= 1600 \/ m <= 490) /\ (m >= 1300 \/ m <= 690) -> 2
                     [] ~(m >= 1600 \/ m <= 490) /\ ~(m >= 1300 \/ m <= 690) /\ m <= 1090 -> 2
                     [] OTHER -> 0)
            /\ ApacheMapShare = 0 <=> (1090 < m /\ m < 1300)
            /\ (700 <= m /\ m <= 1090) => ApacheMapShare = 2

(* A MAP of 109, the last one the third test matches. *)
C26_Witness ==
    /\ ApacheCalled /\ result.raised = ""
    /\ args.mean_arterial_pressure = 1090
    /\ ApacheMapShare = 2

(* C30: every result calculate_apache_ii returns has a score >= 0, and     *)
(* with glasgow_coma_scale in 3..15 the score lies in 0..35.  The code     *)
(* refutes the first part: it validates nothing, and 15 minus a            *)
(* glasgow_coma_scale above 15 is negative.                                *)
C30_ApacheScoreNonNegative ==
    (ApacheCalled /\ result.raised = "") =>
        /\ result.score >= 0
        /\ args.glasgow_coma_scale \in 3..15 => result.score \in 0..35

(* The part of C30 the code keeps. *)
ApacheScoreInRangeForValidGlasgow ==
    (ApacheCalled /\ result.raised = "" /\ args.glasgow_coma_scale \in 3..15) => result.score \in 0..35

(* ---- the start node of the full fetch ---- *)

(* C27: in every answer of the full fetch whose start_node is not null,  *)
(* the start_node is one of the nodes of the answer's nodes list, so it  *)
(* is active and belongs to the fetched algorithm.  The code refutes it: *)
(* with start_node_id set, the start node is read by its id alone.       *)
C27_StartNodeAmongNodes ==
    (Answered("get_algorithm_with_nodes_and_edges") /\ result.status = 200 /\ result.start_node # None) =>
        /\ result.start_node.id \in Ids(result.nodes)
        /\ result.start_node.is_active
        /\ result.start_node.algorithm_id = args.algorithm_id

(* The part of C27 the code keeps: a start node found by the fallback, *)
(* start_node_id being null, is among the nodes of the answer.         *)
FallbackStartNodeAmongNodes ==
    (Answered("get_algorithm_with_nodes_and_edges") /\ result.status = 200 /\ result.start_node # None /\ result.algorithm.start_node_id = NULL) =>
        /\ result.start_node.id \in Ids(result.nodes)
        /\ result.start_node.is_active
        /\ result.start_node.algorithm_id = args.algorithm_id

(* ---- seed_sample_algorithms called again ---- *)

(* C28: whenever seed_sample_algorithms has returned True, every algorithm *)
(* a call of the seeder created is complete: it has its 4 nodes, its 3     *)
(* edges and a start_node_id that names its start-type node; also when an  *)
(* earlier call failed part-way.  The code refutes it: the next call finds *)
(* the algorithm the failed call left and returns True at once.            *)
C28_SeedTrueMeansComplete ==
    (seeder.pc = "idle" /\ seeder.returned = "True") =>
        \A a \in DOMAIN algorithms :
            /\ Complete(algorithms, nodes, edges, a)
            /\ nodes[algorithms[a].start_node_id].node_type = "start"

(* The part of C28 the code keeps: a call that ran its four commits and *)
(* returned True leaves the algorithm it created complete.              *)
SeedTrueAfterEdges ==
    [][ (seeder.pc = "edges" /\ seeder'.pc = "idle" /\ seeder'.returned = "True") =>
            /\ Complete(algorithms', nodes', edges', seeder.algorithm_id)
            /\ nodes'[algorithms'[seeder.algorithm_id].start_node_id].node_type = "start" ]_vars

(* ---- seed_sample_algorithms, several calls ---- *)

(* Every seeder was called and every call has returned. *)
AllSeedersReturned == \A s \in DOMAIN sessions : sessions[s].pc = "idle" /\ sessions[s].returned # "none"

(* C29: from a store with a user and no algorithm, after any interleaving  *)
(* of two or more calls of seed_sample_algorithms that all return, the     *)
(* store holds exactly one sample algorithm, with 4 nodes and 3 edges.     *)
(* The code refutes it: two calls count the algorithms before either       *)
(* inserts one, and both insert.                                           *)
C29_SeedIdempotent ==
    AllSeedersReturned =>
        /\ Cardinality(DOMAIN algorithms) = 1
        /\ Cardinality(DOMAIN nodes) = 4
        /\ Cardinality(DOMAIN edges) = 3
        /\ \A a \in DOMAIN algorithms : Complete(algorithms, nodes, edges, a)

(* The part of C29 the code keeps: a call made on a store that already *)
(* holds an algorithm writes nothing.                                  *)
SeedOnSeededStoreCreatesNothing ==
    [][ \A s \in DOMAIN sessions :
            (sessions[s].before.algorithms # {} /\ sessions'[s] # sessions[s] /\ sessions[s].pc # "idle")
                => UNCHANGED storeVars ]_vars

====
